---- MODULE Spec2Model ----
(***************************************************************************)
(* Session-log reconstruction of ccshare: parseJSONLSessionData and the    *)
(* helpers it calls (src/src/capture.ts).                                  *)
(*                                                                         *)
(* Data conventions.                                                       *)
(*  - A JS string is the sequence of its lines (what split('\n') gives),   *)
(*    and a line is the sequence of its tokens: "" is one line without     *)
(*    tokens, << <<>> >>, and a missing (undefined) string is <<>>.        *)
(*    The glyphs of the tool lines are written "@ " (U+23FA and a space)   *)
(*    and "  L " (two spaces, U+23BF and a space).                         *)
(*  - A uuid is a positive number; 0 is a missing uuid / parentUuid.       *)
(*  - A timestamp is a positive number; 0 is a missing timestamp.          *)
(*  - An optional list (associatedFiles, diff) that is absent is <<>>.     *)
(***************************************************************************)
EXTENDS Integers, Sequences, FiniteSets, TLC

VARIABLES
  raw,                 \* rawData: the lines of the log text, in file order
  now,                 \* the wall clock read by new Date()
  pc,                  \* position inside parseJSONLSessionData
  idx,                 \* index of the line the second pass is at
  entriesByUuid,       \* Map<string, any> built by the first pass
  fileChangesByPrompt, \* Map<string, FileChange[]>
  sessionData,         \* the SessionData under construction
  walk,                \* locals of the parent-chain walk of the current edit
  changeOwner,         \* history: per change, the uuid its walk resolved to (0: none)
  changeLine,          \* history: per change, the line that carried it
  promptLine,          \* history: per prompt, the line it was built from
  firstRun,            \* the SessionData of an earlier run on the same text
  diffCall,            \* a call of generateSimpleDiff: its arguments and its result
  dir,                 \* a call of captureSessionsFromDirectory: files and locals
  file,                \* watch mode: what the writer has put in the session file
  state,               \* watch mode: SessionWatcher.state
  slices,              \* watch mode, history: the slices processFile has parsed
  json,                \* a call of parseSessionData: its text, locals and result
  rawCapture,          \* a call of captureRawSession: the log, the limit, the result
  all                  \* a call of captureAllSessions: the directories and locals

parseVars == <<raw, now, pc, idx, entriesByUuid, fileChangesByPrompt, sessionData,
               walk, changeOwner, changeLine, promptLine, firstRun>>

watchVars == <<file, state, slices>>

captureVars == <<json, rawCapture, all>>

vars == <<parseVars, diffCall, dir, watchVars, captureVars>>

-----------------------------------------------------------------------------
(* Bounds of the model *)

MaxLines == 3
MaxHops == 3
MaxEdits == 2
ChainExtra == 2
MaxClock == 2
MaxDiffLines == 5
MaxFiles == 2
MaxStamp == 3

(* Program constants *)

maxDepth == 20
ContextBefore == 3
ContextAfter == 2

-----------------------------------------------------------------------------
(* Strings *)

Undefined == <<>>
EmptyLine == <<>>
EmptyString == <<EmptyLine>>
Str(token) == << <<token>> >>

Truthy(s) == s # Undefined /\ s # EmptyString

Max(a, b) == IF a >= b THEN a ELSE b
Min(a, b) == IF a <= b THEN a ELSE b

Range(s) == {s[i] : i \in 1..Len(s)}

\* content.includes(marker), at the granularity of lines
Includes(s, marker) == \E i \in 1..Len(s) : \E j \in 1..Len(s[i]) : s[i][j] = marker

RECURSIVE Join(_)
\* parts.join('\n')
Join(parts) ==
  IF parts = <<>> THEN EmptyString
  ELSE IF Len(parts) = 1 THEN (IF parts[1] = Undefined THEN EmptyString ELSE parts[1])
  ELSE (IF parts[1] = Undefined THEN EmptyString ELSE parts[1]) \o Join(Tail(parts))

RECURSIVE Dedupe(_)
\* [...new Set(list)]: first occurrences, in order
Dedupe(s) ==
  IF s = <<>> THEN <<>>
  ELSE LET r == Dedupe(SubSeq(s, 1, Len(s) - 1))
           x == s[Len(s)]
       IN IF x \in Range(r) THEN r ELSE Append(r, x)

-----------------------------------------------------------------------------
(* generateSimpleDiff *)

NoChange == [start |-> 0, end |-> 0, added |-> <<>>, removed |-> <<>>]

DiffLine(k, n, m, s) == [k |-> k, n |-> n, m |-> m, s |-> s]

\* a comparison that takes only the indices inside both texts
LinesDifferInside(oldLines, newLines, i) ==
  i <= Len(oldLines) /\ i <= Len(newLines) /\ oldLines[i] # newLines[i]

\* oldLine !== newLine at index i (1-based); a line past the end is undefined
LinesDiffer(oldLines, newLines, i) ==
  ~(i <= Len(oldLines) /\ i <= Len(newLines) /\ oldLines[i] = newLines[i])

ExtendChange(oldLines, newLines, i, currentChange) ==
  LET c == IF currentChange = NoChange
           THEN [start |-> i, end |-> i, added |-> <<>>, removed |-> <<>>]
           ELSE [currentChange EXCEPT !.end = i]
  IN IF i <= Len(oldLines) /\ i > Len(newLines)
     THEN [c EXCEPT !.removed = Append(@, oldLines[i])]
     ELSE IF i > Len(oldLines) /\ i <= Len(newLines)
     THEN [c EXCEPT !.added = Append(@, newLines[i])]
     ELSE [c EXCEPT !.removed = Append(@, oldLines[i]),
                    !.added = Append(@, newLines[i])]

RECURSIVE FindChanges(_, _, _, _, _)
FindChanges(oldLines, newLines, i, currentChange, changes) ==
  IF i > Max(Len(oldLines), Len(newLines))
  THEN (IF currentChange # NoChange THEN Append(changes, currentChange) ELSE changes)
  ELSE IF LinesDiffer(oldLines, newLines, i)
  THEN FindChanges(oldLines, newLines, i + 1,
                   ExtendChange(oldLines, newLines, i, currentChange), changes)
  ELSE IF currentChange # NoChange
  THEN FindChanges(oldLines, newLines, i + 1, NoChange, Append(changes, currentChange))
  ELSE FindChanges(oldLines, newLines, i + 1, NoChange, changes)

RECURSIVE SumLen(_, _)
SumLen(changes, which) ==
  IF changes = <<>> THEN 0
  ELSE Len(IF which = "added" THEN changes[1].added ELSE changes[1].removed)
       + SumLen(Tail(changes), which)

\* the lines printed before a block: line numbers max(1, start-3) .. start-1
ContextBeforeLines(oldLines, change) ==
  LET first == Max(0, change.start - (ContextBefore + 1)) + 1
      count == Max(0, change.start - first)
  IN [j \in 1..count |->
        DiffLine("ctx", first + j - 1, 0,
                 IF first + j - 1 <= Len(oldLines) THEN oldLines[first + j - 1] ELSE EmptyLine)]

\* as many lines after a block as the code prints before it
ContextAfterAsBefore(newLines, change) ==
  LET last == Min(Len(newLines), change.end + ContextBefore)
      count == Max(0, last - change.end)
  IN [j \in 1..count |-> DiffLine("ctx", change.end + j, 0, newLines[change.end + j])]

\* the lines printed after a block: line numbers end+1 .. min(newLines.length, end+2)
ContextAfterLines(newLines, change) ==
  LET last == Min(Len(newLines), change.end + ContextAfter)
      count == Max(0, last - change.end)
  IN [j \in 1..count |-> DiffLine("ctx", change.end + j, 0, newLines[change.end + j])]

RenderChange(oldLines, newLines, change) ==
  ContextBeforeLines(oldLines, change)
  \o [j \in 1..Len(change.removed) |->
        DiffLine("-", change.start + j - 1, 0, change.removed[j])]
  \o [j \in 1..Len(change.added) |->
        DiffLine("+", change.start + j - 1, 0, change.added[j])]
  \o ContextAfterLines(newLines, change)

RECURSIVE RenderChanges(_, _, _, _)
RenderChanges(oldLines, newLines, changes, k) ==
  IF k > Len(changes) THEN <<>>
  ELSE (IF k > 1 THEN <<DiffLine("sep", 0, 0, EmptyLine)>> ELSE <<>>)
       \o RenderChange(oldLines, newLines, changes[k])
       \o RenderChanges(oldLines, newLines, changes, k + 1)

generateSimpleDiff(oldContent, newContent, filePath) ==
  LET changes == FindChanges(oldContent, newContent, 1, NoChange, <<>>)
  IN IF changes = <<>> THEN <<DiffLine("nochanges", 0, 0, EmptyLine)>>
     ELSE <<DiffLine("update", 0, 0, <<filePath>>),
            DiffLine("summary", SumLen(changes, "added"), SumLen(changes, "removed"),
                     <<filePath>>)>>
          \o RenderChanges(oldContent, newContent, changes, 1)

-----------------------------------------------------------------------------
(* Log entries: what JSON.parse gives for one line *)

NoToolUseResult ==
  [present |-> FALSE, filePath |-> "", hasEdits |-> FALSE, edits |-> <<>>,
   oldString |-> Undefined, newString |-> Undefined, originalFile |-> Undefined,
   structuredPatch |-> FALSE]

\* line: "json" (decodes), "bad" (JSON.parse throws) or "blank" (only white space)
NullEntry ==
  [line |-> "bad", uuid |-> 0, parentUuid |-> 0, type |-> "", hasMessage |-> FALSE,
   role |-> "", contentIsString |-> FALSE, text |-> Undefined, items |-> <<>>,
   toolUseResult |-> NoToolUseResult, timestamp |-> 0, content |-> Undefined,
   error |-> FALSE]

BlankLine == [NullEntry EXCEPT !.line = "blank"]

Item(type, text, content, contentIsArray, name, file_path) ==
  [type |-> type, text |-> text, content |-> content,
   contentIsArray |-> contentIsArray, name |-> name, file_path |-> file_path]

TextItem(text) == Item("text", text, Undefined, FALSE, "", "")
ImageItem == Item("image", Undefined, Undefined, FALSE, "", "")
ToolResultItem(content) == Item("tool_result", Undefined, content, FALSE, "", "")
\* a tool_result block whose content is an array of blocks, not a string
ToolResultBlocksItem == Item("tool_result", Undefined, Undefined, TRUE, "", "")
ToolUseItem(name, file_path) == Item("tool_use", Undefined, Undefined, FALSE, name, file_path)

UserText(uuid, parentUuid, text) ==
  [NullEntry EXCEPT !.line = "json", !.uuid = uuid, !.parentUuid = parentUuid,
                    !.type = "user", !.hasMessage = TRUE, !.role = "user",
                    !.contentIsString = TRUE, !.text = text,
                    !.timestamp = 1000 * uuid]

UserArray(uuid, parentUuid, items, toolUseResult) ==
  [NullEntry EXCEPT !.line = "json", !.uuid = uuid, !.parentUuid = parentUuid,
                    !.type = "user", !.hasMessage = TRUE, !.role = "user",
                    !.items = items, !.toolUseResult = toolUseResult,
                    !.timestamp = 1000 * uuid]

AssistantArray(uuid, parentUuid, items) ==
  [NullEntry EXCEPT !.line = "json", !.uuid = uuid, !.parentUuid = parentUuid,
                    !.type = "assistant", !.hasMessage = TRUE, !.role = "assistant",
                    !.items = items, !.timestamp = 1000 * uuid]

\* an entry of type tool_result: no message, the result text in entry.content
ToolResultEntry(uuid, parentUuid, content, error, toolUseResult) ==
  [NullEntry EXCEPT !.line = "json", !.uuid = uuid, !.parentUuid = parentUuid,
                    !.type = "tool_result", !.content = content, !.error = error,
                    !.toolUseResult = toolUseResult, !.timestamp = 1000 * uuid]

\* a user entry with no message field (for example a meta record)
BareEntry(uuid, parentUuid, type) ==
  [NullEntry EXCEPT !.line = "json", !.uuid = uuid, !.parentUuid = parentUuid,
                    !.type = type, !.timestamp = 1000 * uuid]

BatchResult(filePath, edits) ==
  [NoToolUseResult EXCEPT !.present = TRUE, !.filePath = filePath,
                          !.hasEdits = TRUE, !.edits = edits]

LegacyResult(filePath, oldString, newString, originalFile, structuredPatch) ==
  [NoToolUseResult EXCEPT !.present = TRUE, !.filePath = filePath,
                          !.oldString = oldString, !.newString = newString,
                          !.originalFile = originalFile,
                          !.structuredPatch = structuredPatch]

Edit(old_string, new_string) == [old_string |-> old_string, new_string |-> new_string]

-----------------------------------------------------------------------------
(* Content classifier *)

\* the markers the walk excludes (capture.ts 918-925)
ExclusionMarkers ==
  {"<function_calls>", "Todos have been modified", "<system-reminder>",
   "Tool ran without output", "@ Update(", "@ Read(",
   "This session is being continued from"}

\* the markers of isAutoGeneratedPrompt; a prefix pattern is a marker of line 1
AutoContainsMarkers ==
  {"<command-message>", "<command-name>", "<system-reminder>",
   "<user-prompt-submit-hook>", "<local-command-stdout>"}

AutoPrefixMarkers ==
  {"Caveat: The messages below were generated by the user while running local commands",
   "Command: /x", "[Tool output]", "System: ", "Auto-generated: "}

isAutoGeneratedPrompt(content) ==
  \/ \E m \in AutoContainsMarkers : Includes(content, m)
  \/ Len(content) > 0 /\ Len(content[1]) > 0 /\ content[1][1] \in AutoPrefixMarkers

\* parent.message.content?.[0]?.type === 'tool_result'
IsToolResultEcho(entry) ==
  /\ ~entry.contentIsString
  /\ Len(entry.items) > 0
  /\ entry.items[1].type = "tool_result"

\* the text the walk extracts from a user entry (capture.ts 905-913)
WalkContent(entry) ==
  IF entry.contentIsString THEN entry.text
  ELSE LET texts == SelectSeq(entry.items, LAMBDA it : it.type = "text")
       IN IF texts # <<>> /\ Truthy(texts[1].text) THEN texts[1].text ELSE EmptyString

\* a stricter test that also rejects the command wrappers of isAutoGeneratedPrompt;
\* the walk does not make it
NotExcludedNorAuto(content) ==
  /\ Truthy(content)
  /\ \A m \in ExclusionMarkers \cup AutoContainsMarkers : ~Includes(content, m)

NotExcluded(content) ==
  Truthy(content) /\ \A m \in ExclusionMarkers : ~Includes(content, m)

\* the test of the walk that makes a parent the owning prompt (capture.ts 896-926)
IsRealUserPrompt(parent) ==
  /\ parent.type = "user"
  /\ parent.hasMessage
  /\ ~IsToolResultEcho(parent)
  /\ NotExcluded(WalkContent(parent))

-----------------------------------------------------------------------------
(* First pass and the shapes of a tool-use result *)

\* rawData.split('\n').filter(line => line.trim())
Lines(rawData) == SelectSeq(rawData, LAMBDA l : l.line # "blank")

RECURSIVE BuildIndex(_, _)
\* entriesByUuid after the first pass over lines[1..n]: the last entry of a uuid wins
BuildIndex(lines, n) ==
  IF n = 0 THEN <<>>
  ELSE LET m == BuildIndex(lines, n - 1)
           e == lines[n]
       IN IF e.line = "json" /\ e.uuid # 0
          THEN [u \in DOMAIN m \cup {e.uuid} |-> IF u = e.uuid THEN e ELSE m[u]]
          ELSE m

IsBatchShape(result) ==
  result.present /\ result.filePath # "" /\ result.hasEdits

IsLegacyShape(result) ==
  /\ result.present
  /\ ~IsBatchShape(result)
  /\ result.filePath # ""
  /\ (Truthy(result.oldString) \/ Truthy(result.newString))

\* one FileChange for a batch of edits, however many it holds
FirstEditOnly(entry) ==
  IF IsBatchShape(entry.toolUseResult) THEN Min(1, Len(entry.toolUseResult.edits))
  ELSE IF IsLegacyShape(entry.toolUseResult) THEN 1
  ELSE 0

\* the number of FileChanges the entry's tool-use result carries
EditCount(entry) ==
  IF IsBatchShape(entry.toolUseResult) THEN Len(entry.toolUseResult.edits)
  ELSE IF IsLegacyShape(entry.toolUseResult) THEN 1
  ELSE 0

\* a timestamp that ignores the entry's own; the code falls back on the clock only
\* when the entry has none
ClockOnly(entry, clock) == clock

\* entry.timestamp || new Date().toISOString()
TimestampOf(entry, clock) == IF entry.timestamp # 0 THEN entry.timestamp ELSE clock

FileChange(path, content, oldContent, timestamp, diff, structuredPatch) ==
  [type |-> "edit", path |-> path, content |-> content, oldContent |-> oldContent,
   timestamp |-> timestamp, diff |-> diff, structuredPatch |-> structuredPatch]

\* the diff condition of the batch shape (capture.ts 870)
BatchHasDiff(edit) == Truthy(edit.old_string) /\ Truthy(edit.new_string)

\* the diff condition of the legacy shape (capture.ts 965)
LegacyHasDiff(result) == Truthy(result.oldString) /\ Truthy(result.newString)

BatchChange(entry, k, clock) ==
  LET result == entry.toolUseResult
      edit == result.edits[k]
  IN FileChange(result.filePath, edit.new_string, edit.old_string,
                TimestampOf(entry, clock),
                IF BatchHasDiff(edit)
                THEN generateSimpleDiff(edit.old_string, edit.new_string, result.filePath)
                ELSE <<>>,
                FALSE)

LegacyChange(entry, clock) ==
  LET result == entry.toolUseResult
  IN FileChange(result.filePath, result.newString,
                IF Truthy(result.oldString) THEN result.oldString ELSE result.originalFile,
                TimestampOf(entry, clock),
                IF LegacyHasDiff(result)
                THEN generateSimpleDiff(result.oldString, result.newString, result.filePath)
                ELSE <<>>,
                result.structuredPatch)

ChangeOf(entry, k, clock) ==
  IF IsBatchShape(entry.toolUseResult) THEN BatchChange(entry, k, clock)
  ELSE LegacyChange(entry, clock)

-----------------------------------------------------------------------------
(* The parent-chain walk (capture.ts 876-942 and 976-1029) *)

NullChange == FileChange("", Undefined, Undefined, 0, <<>>, FALSE)

NoWalk ==
  [edit |-> 0, currentEntry |-> NullEntry, userPromptUuid |-> 0, visited |-> {},
   depth |-> 0, broke |-> FALSE, fileChange |-> NullChange]

\* the locals at the start of the walk of the entry's k-th edit
StartWalk(entry, k, clock) ==
  [edit |-> k, currentEntry |-> entry, userPromptUuid |-> 0, visited |-> {},
   depth |-> 0, broke |-> FALSE, fileChange |-> ChangeOf(entry, k, clock)]

\* the loop condition with an inclusive depth test, one hop more than the code allows
LoopGuardInclusive(w) ==
  /\ w.currentEntry.parentUuid # 0
  /\ w.currentEntry.uuid \notin w.visited
  /\ w.depth <= maxDepth

\* the loop condition without the visited set
LoopGuardUnvisited(w) ==
  /\ w.currentEntry.parentUuid # 0
  /\ w.depth < maxDepth

\* the condition of the while loop
LoopGuard(w) ==
  /\ w.currentEntry.parentUuid # 0
  /\ w.currentEntry.uuid \notin w.visited
  /\ w.depth < maxDepth

WalkContinues(w) == ~w.broke /\ LoopGuard(w)

\* an iteration that records a genuine prompt and walks on, so that the walk ends at
\* the farthest one; the code breaks at the first
StepWalkFarthest(w, index) ==
  LET cur == w.currentEntry
      entered == [w EXCEPT !.visited = @ \cup {cur.uuid}, !.depth = @ + 1]
  IN IF cur.parentUuid \notin DOMAIN index
     THEN [entered EXCEPT !.broke = TRUE]
     ELSE LET parent == index[cur.parentUuid]
          IN IF IsRealUserPrompt(parent)
             THEN [entered EXCEPT !.userPromptUuid = parent.uuid, !.currentEntry = parent]
             ELSE [entered EXCEPT !.currentEntry = parent]

\* one iteration of the while loop
StepWalk(w, index) ==
  LET cur == w.currentEntry
      entered == [w EXCEPT !.visited = @ \cup {cur.uuid}, !.depth = @ + 1]
  IN IF cur.parentUuid \notin DOMAIN index
     THEN [entered EXCEPT !.broke = TRUE]
     ELSE LET parent == index[cur.parentUuid]
          IN IF IsRealUserPrompt(parent)
             THEN [entered EXCEPT !.userPromptUuid = parent.uuid, !.broke = TRUE]
             ELSE [entered EXCEPT !.currentEntry = parent]

\* fileChangesByPrompt after the walk: the change is filed under its owner, if any
Attach(map, w) ==
  IF w.userPromptUuid = 0 THEN map
  ELSE [u \in DOMAIN map \cup {w.userPromptUuid} |->
          IF u = w.userPromptUuid
          THEN Append(IF u \in DOMAIN map THEN map[u] ELSE <<>>, w.fileChange)
          ELSE map[u]]

-----------------------------------------------------------------------------
(* Prompts, tool executions and assistant actions *)

\* prompt.responseTimeMs: not set, or the difference of two times, which is NaN when
\* one of them is no time
NoResponseTime == [computed |-> FALSE, nan |-> FALSE, ms |-> 0]

Prompt(role, content, timestamp, isAutoGenerated, uuid, associatedFiles) ==
  [role |-> role, content |-> content, timestamp |-> timestamp,
   isAutoGenerated |-> isAutoGenerated, uuid |-> uuid,
   associatedFiles |-> associatedFiles, responseTimeMs |-> NoResponseTime]

\* "Calculate response time if we can find the parent user message"
\* (capture.ts 1219-1226)
ResponseTime(entry, index) ==
  IF /\ entry.parentUuid # 0
     /\ entry.parentUuid \in DOMAIN index
     /\ index[entry.parentUuid].timestamp # 0
  THEN IF entry.timestamp = 0
       THEN [computed |-> TRUE, nan |-> TRUE, ms |-> 0]
       ELSE [computed |-> TRUE, nan |-> FALSE,
             ms |-> entry.timestamp - index[entry.parentUuid].timestamp]
  ELSE NoResponseTime

AssistantAction(type, description, timestamp, promptId) ==
  [type |-> type, description |-> description, timestamp |-> timestamp,
   promptId |-> promptId]

NoFileChangeRef == [present |-> FALSE, filePath |-> "", diff |-> <<>>]

ToolExecution(tool, timestamp, promptId) ==
  [tool |-> tool, timestamp |-> timestamp, promptId |-> promptId,
   result |-> Undefined, status |-> "", fileChange |-> NoFileChangeRef]

Paths(changes) == [i \in 1..Len(changes) |-> changes[i].path]

\* [...new Set(fileChangesByPrompt.get(uuid).map(c => c.path))], <<>> when there is none
AssociatedFilesOf(map, uuid) ==
  IF uuid \in DOMAIN map THEN Dedupe(Paths(map[uuid])) ELSE <<>>

RECURSIVE UserItems(_, _, _, _)
\* msg.content.forEach of a user entry (capture.ts 1054-1069); a tool_result block
\* whose content is not a string makes item.content.substring throw
UserItems(items, k, acc, timestamp) ==
  IF k > Len(items) \/ acc.threw THEN acc
  ELSE LET item == items[k]
       IN UserItems(items, k + 1,
            IF item.type = "text"
            THEN [acc EXCEPT !.contentParts = Append(@, item.text)]
            ELSE IF item.type = "tool_result"
            THEN IF item.contentIsArray
                 THEN [acc EXCEPT !.hasToolResult = TRUE, !.threw = TRUE]
                 ELSE IF Truthy(item.content)
                 THEN [acc EXCEPT !.hasToolResult = TRUE,
                                  !.actions = Append(@,
                                     AssistantAction("command_execution", item.content,
                                                     timestamp, 0))]
                 ELSE [acc EXCEPT !.hasToolResult = TRUE]
            ELSE acc,
            timestamp)

\* the line of a tool_use block in the assistant's content: "\n@ name"
ToolUseLines(item) ==
  <<EmptyLine, <<"@ ", item.name>>>>

\* the parameter line of a tool_use block (capture.ts 1124-1135)
ToolParamParts(item) ==
  IF item.name \in {"Edit", "Read"} /\ item.file_path # ""
  THEN << <<<<"  L ", item.file_path>>>> >>
  ELSE IF item.name = "TodoWrite" THEN << <<<<"  L ", "Update Todos">>>> >>
  ELSE <<>>

RECURSIVE AssistantItems(_, _, _, _, _)
\* msg.content.forEach of an assistant entry (capture.ts 1105-1137)
AssistantItems(items, k, acc, timestamp, parentUuid) ==
  IF k > Len(items) THEN acc
  ELSE LET item == items[k]
       IN AssistantItems(items, k + 1,
            IF item.type = "text"
            THEN [acc EXCEPT !.contentParts = Append(@, item.text)]
            ELSE IF item.type = "tool_use"
            THEN [acc EXCEPT !.contentParts = (@ \o <<ToolUseLines(item)>>)
                                               \o ToolParamParts(item),
                             !.executions = Append(@,
                                ToolExecution(item.name, timestamp, parentUuid))]
            ELSE acc,
            timestamp, parentUuid)

RECURSIVE TrimLines(_)
\* String.trim() on whole lines: blank lines at both ends are dropped
TrimLines(s) ==
  IF s = <<>> THEN <<>>
  ELSE IF s[1] = EmptyLine THEN TrimLines(Tail(s))
  ELSE IF s[Len(s)] = EmptyLine THEN TrimLines(SubSeq(s, 1, Len(s) - 1))
  ELSE s

CompletionMark == "wanryo"

\* extractAssistantActions (capture.ts 233-256)
extractAssistantActions(content, timestamp) ==
  LET kept == SelectSeq(content,
                LAMBDA l : ~(l # EmptyLine /\ l[1] = "@ ")
                           \/ (\E j \in 1..Len(l) : l[j] = CompletionMark))
      cleanContent == TrimLines(kept)
  IN IF Truthy(content) /\ cleanContent # <<>>
     THEN <<AssistantAction("explanation", cleanContent, timestamp, 0)>>
     ELSE <<>>

-----------------------------------------------------------------------------
(* The branches of the second pass for one decoded entry *)

NullSession ==
  [timestamp |-> 0, prompts |-> <<>>, changes |-> <<>>, assistantActions |-> <<>>,
   toolExecutions |-> <<>>]

\* "Handle user messages" (capture.ts 1043-1094)
UserBranch(sd, entry, map, clock) ==
  LET timestamp == TimestampOf(entry, clock)
      acc0 == [contentParts |-> <<>>, hasToolResult |-> FALSE, actions |-> <<>>,
               threw |-> FALSE]
      acc == IF entry.contentIsString THEN acc0
             ELSE UserItems(entry.items, 1, acc0, timestamp)
      content == IF entry.contentIsString THEN entry.text
                 ELSE IF ~acc.hasToolResult \/ acc.contentParts # <<>>
                 THEN Join(acc.contentParts)
                 ELSE EmptyString
      sd1 == [sd EXCEPT !.assistantActions = @ \o acc.actions]
  IN IF ~acc.threw /\ Truthy(content) /\ entry.role = "user"
     THEN [sd |-> [sd1 EXCEPT !.prompts = Append(@,
                     Prompt("user", content, timestamp, isAutoGeneratedPrompt(content),
                            entry.uuid, AssociatedFilesOf(map, entry.uuid)))],
           pushed |-> TRUE]
     ELSE [sd |-> sd1, pushed |-> FALSE]

\* "Also update the previous user prompt" (capture.ts 1236-1242)
UpdateLastPrompt(prompts, associatedFiles) ==
  IF prompts # <<>> /\ prompts[Len(prompts)].role = "user"
  THEN [prompts EXCEPT ![Len(prompts)].associatedFiles = associatedFiles]
  ELSE prompts

\* "Handle assistant messages" (capture.ts 1097-1248)
AssistantBranch(sd, entry, map, clock, index) ==
  LET timestamp == TimestampOf(entry, clock)
      acc0 == [contentParts |-> <<>>, executions |-> <<>>]
      acc == IF entry.contentIsString THEN acc0
             ELSE AssistantItems(entry.items, 1, acc0, timestamp, entry.parentUuid)
      content == IF entry.contentIsString THEN EmptyString ELSE Join(acc.contentParts)
      sd1 == [sd EXCEPT !.toolExecutions = @ \o acc.executions]
      actions == extractAssistantActions(content, timestamp)
      hasUserPrompt == \E i \in 1..Len(sd.prompts) : sd.prompts[i].role = "user"
      linked == [i \in 1..Len(actions) |->
                   IF hasUserPrompt THEN [actions[i] EXCEPT !.promptId = entry.parentUuid]
                   ELSE actions[i]]
      associatedFiles == IF entry.parentUuid # 0
                         THEN AssociatedFilesOf(map, entry.parentUuid) ELSE <<>>
      prompts1 == IF associatedFiles # <<>>
                  THEN UpdateLastPrompt(sd.prompts, associatedFiles) ELSE sd.prompts
  IN IF Truthy(content)
     THEN [sd |-> [sd1 EXCEPT !.assistantActions = @ \o linked,
                              !.prompts = Append(prompts1,
                                 [Prompt("assistant", content, timestamp, FALSE, 0,
                                         associatedFiles)
                                    EXCEPT !.responseTimeMs =
                                              ResponseTime(entry, index)])],
           pushed |-> TRUE]
     ELSE [sd |-> sd1, pushed |-> FALSE]

FileChangeWindowMs == 1000

Abs(x) == IF x < 0 THEN -x ELSE x

\* sessionData.changes.find(...) of the tool_result branch (capture.ts 1266-1269);
\* an entry without timestamp gives an invalid date, which matches nothing
FindFileChange(changes, entry) ==
  LET hits == SelectSeq(changes,
                LAMBDA c : /\ c.path = entry.toolUseResult.filePath
                           /\ entry.timestamp # 0
                           /\ Abs(c.timestamp - entry.timestamp) < FileChangeWindowMs)
  IN IF hits = <<>> THEN NoFileChangeRef
     ELSE [present |-> TRUE, filePath |-> entry.toolUseResult.filePath,
           diff |-> hits[1].diff]

\* the most recent tool execution, with or without a result
LastExecution(executions, i) == i

\* the most recent tool execution without a result, and the oldest execution when
\* every one has a result
LastOpenOrOldest(executions, i) ==
  LET open == {j \in 1..i : ~Truthy(executions[j].result)}
  IN IF open # {} THEN CHOOSE j \in open : \A k \in open : k <= j
     ELSE IF i > 0 THEN 1 ELSE 0

\* the oldest tool execution without a result, 0 when there is none
FirstOpen(executions, i) ==
  LET open == {j \in 1..i : ~Truthy(executions[j].result)}
  IN IF open = {} THEN 0 ELSE CHOOSE j \in open : \A k \in open : j <= k

RECURSIVE LastOpen(_, _)
\* the index of the most recent tool execution without a result, 0 when there is none
LastOpen(executions, i) ==
  IF i = 0 THEN 0
  ELSE IF ~Truthy(executions[i].result) THEN i
  ELSE LastOpen(executions, i - 1)

\* "Handle tool result entries" (capture.ts 1251-1286)
ToolResultBranch(sd, entry) ==
  LET i == LastOpen(sd.toolExecutions, Len(sd.toolExecutions))
      tool == sd.toolExecutions[i].tool
      ref == IF /\ tool \in {"Edit", "MultiEdit"}
                /\ entry.toolUseResult.present
                /\ entry.toolUseResult.filePath # ""
             THEN FindFileChange(sd.changes, entry)
             ELSE NoFileChangeRef
  IN IF i = 0 THEN sd
     ELSE [sd EXCEPT !.toolExecutions[i].result = entry.content,
                     !.toolExecutions[i].status = IF entry.error THEN "error" ELSE "success",
                     !.toolExecutions[i].fileChange =
                        IF ref.present THEN ref ELSE @]

\* the three message branches for one decoded entry, in the order of the code
MessageBranches(sd, entry, map, clock, index) ==
  IF entry.type = "user" /\ entry.hasMessage
  THEN UserBranch(sd, entry, map, clock)
  ELSE IF entry.type = "assistant" /\ entry.hasMessage
  THEN AssistantBranch(sd, entry, map, clock, index)
  ELSE IF entry.type = "tool_result" /\ Truthy(entry.content)
  THEN [sd |-> ToolResultBranch(sd, entry), pushed |-> FALSE]
  ELSE [sd |-> sd, pushed |-> FALSE]

-----------------------------------------------------------------------------
(* parseJSONLSessionData as a function, for the callers that use its result *)

RECURSIVE RunWalk(_, _)
\* the while loop of the walk, run to its end
RunWalk(w, index) ==
  IF WalkContinues(w) THEN RunWalk(StepWalk(w, index), index) ELSE w

RECURSIVE ParseEdits(_, _, _, _, _, _)
\* the FileChanges of the entry's tool-use result, from its k-th edit on
ParseEdits(acc, entry, k, l, index, clock) ==
  IF k > EditCount(entry) THEN acc
  ELSE LET w == RunWalk(StartWalk(entry, k, clock), index)
       IN ParseEdits([acc EXCEPT
                        !.map = Attach(@, w),
                        !.sd.changes = Append(@, w.fileChange),
                        !.changeOwner = Append(@, w.userPromptUuid),
                        !.changeLine = Append(@, l)],
                     entry, k + 1, l, index, clock)

\* one iteration of the second pass, for line l
ParseLine(acc, entry, l, index, clock) ==
  IF entry.line = "bad" THEN acc
  ELSE LET acc1 == ParseEdits(acc, entry, 1, l, index, clock)
           r == MessageBranches(acc1.sd, entry, acc1.map, clock, index)
       IN [acc1 EXCEPT !.sd = r.sd,
                       !.promptLine = IF r.pushed THEN Append(@, l) ELSE @]

RECURSIVE ParseLines(_, _, _, _, _)
ParseLines(acc, lines, l, index, clock) ==
  IF l > Len(lines) THEN acc
  ELSE ParseLines(ParseLine(acc, lines[l], l, index, clock), lines, l + 1, index, clock)

\* the SessionData parseJSONLSessionData returns for the text, with the map it filed
\* the changes in and, per change and per prompt, the line it comes from
Parse(rawData, clock) ==
  ParseLines([sd |-> [NullSession EXCEPT !.timestamp = clock], map |-> <<>>,
              changeOwner |-> <<>>, changeLine |-> <<>>, promptLine |-> <<>>],
             Lines(rawData), 1, BuildIndex(Lines(rawData), Len(Lines(rawData))), clock)

-----------------------------------------------------------------------------
(* Input logs *)

FixBug == Str("fix bug")
FooEdit == BatchResult("foo.py", <<Edit(Str("x=1"), Str("x=2"))>>)

\* one entry of each kind the logs are built from
Mk(kind, uuid, parentUuid) ==
  CASE kind = "U"  -> UserText(uuid, parentUuid, FixBug)
    [] kind = "Ux" -> UserText(uuid, parentUuid, Str("<system-reminder>"))
    [] kind = "Uc" -> UserText(uuid, parentUuid, Str("<command-message>"))
    [] kind = "Ue" -> UserArray(uuid, parentUuid, <<ImageItem>>, NoToolUseResult)
    [] kind = "Un" -> BareEntry(uuid, parentUuid, "user")
    [] kind = "E"  -> UserArray(uuid, parentUuid, <<ToolResultItem(Str("ok"))>>,
                                NoToolUseResult)
    [] kind = "A"  -> AssistantArray(uuid, parentUuid, <<ToolUseItem("Edit", "foo.py")>>)
    [] kind = "At" -> AssistantArray(uuid, parentUuid, <<TextItem(Str("done"))>>)
    [] kind = "R"  -> UserArray(uuid, parentUuid, <<ToolResultItem(Str("ok"))>>, FooEdit)
    [] kind = "Rb" -> UserArray(uuid, parentUuid, <<ToolResultItem(Str("ok"))>>,
                                BatchResult("bar.py", <<Edit(Str("y=1"), Str("y=2"))>>))
    [] kind = "Rx" -> UserArray(uuid, parentUuid, <<ToolResultBlocksItem>>, FooEdit)
    [] kind = "A2" -> AssistantArray(uuid, parentUuid,
                                     <<ToolUseItem("Edit", "foo.py"),
                                       ToolUseItem("Read", "foo.py")>>)
    [] kind = "T"  -> ToolResultEntry(uuid, parentUuid, Str("ok"), FALSE, NoToolUseResult)
    [] kind = "Te" -> ToolResultEntry(uuid, parentUuid, Str("failed"), TRUE,
                                      NoToolUseResult)
    [] kind = "Tf" -> ToolResultEntry(uuid, parentUuid, Str("ok"), FALSE, FooEdit)
    [] kind = "bad" -> NullEntry
    [] kind = "blank" -> BlankLine

\* parent graphs over at most MaxLines entries: the uuid of line i is i and its
\* parentUuid is missing, the line before or the line after; the line before the first
\* is no entry, the line after the last is a uuid that is not in the log
GraphKinds == {"U", "A", "R"}

GraphParent(i, p) ==
  CASE p = "none" -> 0
    [] p = "before" -> i - 1
    [] p = "after" -> i + 1

GraphLogs ==
  UNION {{[i \in 1..n |-> Mk(k[i], i, GraphParent(i, p[i]))] :
            k \in [1..n -> GraphKinds], p \in [1..n -> {"none", "before", "after"}]} :
         n \in 1..MaxLines}

\* a tool result below a chain of at most MaxHops ancestors of every kind, oldest first
AncestorKinds == {"U", "Ux", "Uc", "Ue", "Un", "E", "A"}

KindChain(h, kinds) ==
  [i \in 1..(h + 1) |-> Mk(IF i <= h THEN kinds[i] ELSE "R", i, i - 1)]

KindChains ==
  UNION {{KindChain(h, kinds) : kinds \in [1..h -> AncestorKinds]} : h \in 0..MaxHops}

\* a tool result below n ancestors, assistant turns and tool-result echoes in turn, with
\* a genuine prompt g hops up (0: none); the parent of the oldest entry is missing
\* (back = 0) or is the entry `back - 1` hops up, so that the chain loops back on itself:
\* to the tool-result entry (back = 1) or to its parent (back = 2)
LongChain(n, g, back) ==
  [i \in 1..(n + 1) |->
     LET hop == n + 1 - i
         parentUuid == IF i > 1 THEN i - 1
                       ELSE IF back = 0 THEN 0 ELSE Max(0, n + 2 - back)
     IN Mk(IF hop = 0 THEN "R"
           ELSE IF hop = g THEN "U"
           ELSE IF hop % 2 = 1 THEN "A" ELSE "E",
           i, parentUuid)]

LongChains ==
  {LongChain(n, g, back) :
     n \in 0..(maxDepth + ChainExtra), g \in {0, maxDepth, maxDepth + 1},
     back \in 0..2}

\* a prompt, an assistant turn that edits, the tool result, and the assistant's
\* closing explanation, each the child of the entry before it
ExplainedLog == <<Mk("U", 1, 0), Mk("A", 2, 1), Mk("R", 3, 2), Mk("At", 4, 3)>>

\* the end-to-end scenario of the specification
EndToEndLog == <<Mk("U", 1, 0), Mk("A", 2, 1), Mk("R", 3, 2)>>

\* the prompt, the assistant turn and a tool result of every shape: the batch shape
\* with at most MaxEdits edits, and the legacy shape
Texts == {Undefined, EmptyString, Str("x=1"), Str("x=2"), <<<<"x=1">>, <<"y=0">>>>}

EditTexts == {Undefined, Str("x=1"), Str("x=2")}

EditLists ==
  UNION {[1..n -> {Edit(o, c) : o \in EditTexts, c \in EditTexts}] : n \in 0..MaxEdits}

ResultShapes ==
  {BatchResult(f, edits) : f \in {"", "foo.py"}, edits \in EditLists}
  \cup {LegacyResult("foo.py", o, c, orig, patch) :
          o \in Texts, c \in Texts, orig \in Texts, patch \in BOOLEAN}

ShapeLogs ==
  {<<Mk("U", 1, 0), Mk("A", 2, 1),
     UserArray(3, 2, <<ToolResultItem(Str("ok"))>>, result)>> : result \in ResultShapes}

\* a tool result of every shape that has no parent
OrphanLogs ==
  {<<UserArray(1, 0, <<ToolResultItem(Str("ok"))>>, result)>> : result \in ResultShapes}

\* two prompts, an assistant turn and two tool results whose parents vary
InterleavedLogs ==
  {<<Mk("R", 1, p1), Mk("U", 2, 0), Mk("U", 3, 0), Mk("A", 4, p4), Mk("R", 5, p5)>> :
     p1 \in 0..5, p4 \in 0..5, p5 \in 0..5}

\* lines that do not decode, blank lines and a line whose processing throws
NoiseKinds == {"U", "At", "R", "Rx", "bad", "blank"}

NoiseLogs ==
  UNION {{[i \in 1..n |-> Mk(k[i], i, IF i > 1 THEN 1 ELSE 0)] :
            k \in [1..n -> NoiseKinds]} : n \in 1..MaxLines}

\* assistant turns that open tool executions and entries of type tool_result
ToolKinds == {"U", "A", "A2", "T", "Te", "Tf"}

ToolLogs ==
  UNION {{[i \in 1..n |-> Mk(k[i], i, i - 1)] : k \in [1..n -> ToolKinds]} :
         n \in 1..MaxLines}

Logs ==
  GraphLogs \cup KindChains \cup LongChains \cup ShapeLogs \cup InterleavedLogs
  \cup NoiseLogs \cup ToolLogs \cup OrphanLogs \cup {EndToEndLog, ExplainedLog}

-----------------------------------------------------------------------------
(* The other operations of the program, while they are not running *)

NoDiffCall == diffCall = [pc |-> "none"]

NoDirCall == dir = [pc |-> "none"]

NoJsonCall == json = [pc |-> "none"]

NoRawCapture == rawCapture = [pc |-> "none"]

NoAllCapture == all = [pc |-> "none"]

NoCapture == NoJsonCall /\ NoRawCapture /\ NoAllCapture

\* the state a SessionWatcher is constructed with (watch.ts 34-50)
NullState ==
  [sessionData |-> [prompts |-> <<>>, changes |-> <<>>],
   lastProcessedLine |-> 0, prompts |-> <<>>, recentFileChanges |-> <<>>,
   excludeAuto |-> FALSE]

NoWatch ==
  /\ file = [written |-> 0, partial |-> FALSE]
  /\ state = NullState
  /\ slices = <<>>

\* no call of parseJSONLSessionData is under way as a state machine
NoParse ==
  /\ raw = <<>>
  /\ now = 1
  /\ pc = "none"
  /\ idx = 0
  /\ entriesByUuid = <<>>
  /\ fileChangesByPrompt = <<>>
  /\ sessionData = NullSession
  /\ walk = NoWalk
  /\ changeOwner = <<>>
  /\ changeLine = <<>>
  /\ promptLine = <<>>
  /\ firstRun = <<>>

-----------------------------------------------------------------------------
(* parseJSONLSessionData as a state machine *)

CurrentEntry == Lines(raw)[idx]

Init ==
  /\ raw \in Logs
  /\ now = 1
  /\ pc = "first"
  /\ idx = 0
  /\ entriesByUuid = <<>>
  /\ fileChangesByPrompt = <<>>
  /\ sessionData = NullSession
  /\ walk = NoWalk
  /\ changeOwner = <<>>
  /\ changeLine = <<>>
  /\ promptLine = <<>>
  /\ firstRun = <<>>
  /\ NoDiffCall /\ NoDirCall /\ NoWatch /\ NoCapture

\* the construction of sessionData and the first pass (capture.ts 814-846)
FirstPass ==
  /\ pc = "first"
  /\ sessionData' = [NullSession EXCEPT !.timestamp = now]
  /\ entriesByUuid' = BuildIndex(Lines(raw), Len(Lines(raw)))
  /\ idx' = 1
  /\ pc' = "line"
  /\ UNCHANGED <<raw, now, fileChangesByPrompt, walk, changeOwner, changeLine,
                 promptLine, firstRun>>
  /\ UNCHANGED <<diffCall, dir, watchVars>>
  /\ UNCHANGED captureVars

\* the second pass takes up a line: JSON.parse, then the tool-use result, if any
StartLine ==
  /\ pc = "line"
  /\ idx <= Len(Lines(raw))
  /\ IF CurrentEntry.line = "bad"
     THEN /\ idx' = idx + 1
          /\ UNCHANGED <<pc, walk>>
     ELSE IF EditCount(CurrentEntry) > 0
     THEN /\ pc' = "walk"
          /\ walk' = StartWalk(CurrentEntry, 1, now)
          /\ UNCHANGED idx
     ELSE /\ pc' = "msg"
          /\ UNCHANGED <<idx, walk>>
  /\ UNCHANGED <<raw, now, entriesByUuid, fileChangesByPrompt, sessionData,
                 changeOwner, changeLine, promptLine, firstRun>>
  /\ UNCHANGED <<diffCall, dir, watchVars>>
  /\ UNCHANGED captureVars

\* one iteration of the walk's while loop
WalkStep ==
  /\ pc = "walk"
  /\ WalkContinues(walk)
  /\ walk' = StepWalk(walk, entriesByUuid)
  /\ UNCHANGED <<raw, now, pc, idx, entriesByUuid, fileChangesByPrompt, sessionData,
                 changeOwner, changeLine, promptLine, firstRun>>
  /\ UNCHANGED <<diffCall, dir, watchVars>>
  /\ UNCHANGED captureVars

\* after the loop: the change is filed under its owner and appended to the changes;
\* the next edit of the entry starts its own walk
EndWalk ==
  /\ pc = "walk"
  /\ ~WalkContinues(walk)
  /\ fileChangesByPrompt' = Attach(fileChangesByPrompt, walk)
  /\ sessionData' = [sessionData EXCEPT !.changes = Append(@, walk.fileChange)]
  /\ changeOwner' = Append(changeOwner, walk.userPromptUuid)
  /\ changeLine' = Append(changeLine, idx)
  /\ IF walk.edit < EditCount(CurrentEntry)
     THEN /\ walk' = StartWalk(CurrentEntry, walk.edit + 1, now)
          /\ UNCHANGED pc
     ELSE /\ walk' = NoWalk
          /\ pc' = "msg"
  /\ UNCHANGED <<raw, now, idx, entriesByUuid, promptLine, firstRun>>
  /\ UNCHANGED <<diffCall, dir, watchVars>>
  /\ UNCHANGED captureVars

\* the user, assistant and tool_result branches of the line; an exception thrown
\* inside is caught and the pass goes on with the next line
HandleMessage ==
  /\ pc = "msg"
  /\ LET r == MessageBranches(sessionData, CurrentEntry, fileChangesByPrompt, now,
                              entriesByUuid)
     IN /\ sessionData' = r.sd
        /\ promptLine' = IF r.pushed THEN Append(promptLine, idx) ELSE promptLine
  /\ idx' = idx + 1
  /\ pc' = "line"
  /\ UNCHANGED <<raw, now, entriesByUuid, fileChangesByPrompt, walk, changeOwner,
                 changeLine, firstRun>>
  /\ UNCHANGED <<diffCall, dir, watchVars>>
  /\ UNCHANGED captureVars

\* return sessionData
Finish ==
  /\ pc = "line"
  /\ idx > Len(Lines(raw))
  /\ pc' = "done"
  /\ UNCHANGED <<raw, now, idx, entriesByUuid, fileChangesByPrompt, sessionData, walk,
                 changeOwner, changeLine, promptLine, firstRun>>
  /\ UNCHANGED <<diffCall, dir, watchVars>>
  /\ UNCHANGED captureVars

Next == FirstPass \/ StartLine \/ WalkStep \/ EndWalk \/ HandleMessage \/ Finish

Spec == Init /\ [][Next]_vars

\* the pass over the long chains, with the fairness of a program that keeps running
InitChains ==
  /\ raw \in LongChains
  /\ now = 1
  /\ pc = "first"
  /\ idx = 0
  /\ entriesByUuid = <<>>
  /\ fileChangesByPrompt = <<>>
  /\ sessionData = NullSession
  /\ walk = NoWalk
  /\ changeOwner = <<>>
  /\ changeLine = <<>>
  /\ promptLine = <<>>
  /\ firstRun = <<>>
  /\ NoDiffCall /\ NoDirCall /\ NoWatch /\ NoCapture

FairSpec == InitChains /\ [][Next]_vars /\ WF_vars(Next)

-----------------------------------------------------------------------------
(* Two runs of parseJSONLSessionData on the same text, under a clock that moves *)

\* the same log with the timestamp of every entry missing
Unstamped(log) == [i \in 1..Len(log) |-> [log[i] EXCEPT !.timestamp = 0]]

TwiceChains ==
  UNION {{KindChain(h, kinds) : kinds \in [1..h -> {"U", "A"}]} : h \in 0..MaxHops}

TwiceLogs == TwiceChains \cup {Unstamped(log) : log \in TwiceChains}

InitTwice ==
  /\ raw \in TwiceLogs
  /\ now = 1
  /\ pc = "first"
  /\ idx = 0
  /\ entriesByUuid = <<>>
  /\ fileChangesByPrompt = <<>>
  /\ sessionData = NullSession
  /\ walk = NoWalk
  /\ changeOwner = <<>>
  /\ changeLine = <<>>
  /\ promptLine = <<>>
  /\ firstRun = <<>>
  /\ NoDiffCall /\ NoDirCall /\ NoWatch /\ NoCapture

\* the wall clock moves on
Tick ==
  /\ now < MaxClock
  /\ now' = now + 1
  /\ UNCHANGED <<raw, pc, idx, entriesByUuid, fileChangesByPrompt, sessionData, walk,
                 changeOwner, changeLine, promptLine, firstRun>>
  /\ UNCHANGED <<diffCall, dir, watchVars>>
  /\ UNCHANGED captureVars

\* the caller keeps the result and calls parseJSONLSessionData on the same text again
Rerun ==
  /\ pc = "done"
  /\ firstRun = <<>>
  /\ firstRun' = <<sessionData>>
  /\ pc' = "first"
  /\ idx' = 0
  /\ entriesByUuid' = <<>>
  /\ fileChangesByPrompt' = <<>>
  /\ sessionData' = NullSession
  /\ walk' = NoWalk
  /\ changeOwner' = <<>>
  /\ changeLine' = <<>>
  /\ promptLine' = <<>>
  /\ UNCHANGED <<raw, now>>
  /\ UNCHANGED <<diffCall, dir, watchVars>>
  /\ UNCHANGED captureVars

NextTwice == Next \/ Tick \/ Rerun

TwiceSpec == InitTwice /\ [][NextTwice]_vars

-----------------------------------------------------------------------------
(* A call of generateSimpleDiff *)

\* texts of at most MaxDiffLines lines over two different lines
DiffAlphabet == {<<"a">>, <<"b">>}

DiffTexts == UNION {[1..n -> DiffAlphabet] : n \in 1..MaxDiffLines}

\* the diff scenario of the specification
ExampleOld == << <<"a">>, <<"b">>, <<"c">> >>
ExampleNew == << <<"a">>, <<"X">>, <<"c">> >>

DiffCall(oldContent, newContent) ==
  [pc |-> "call", oldContent |-> oldContent, newContent |-> newContent,
   filePath |-> "foo.py", result |-> Undefined]

InitDiff ==
  /\ NoParse /\ NoDirCall /\ NoWatch /\ NoCapture
  /\ diffCall \in {DiffCall(o, n) : o \in DiffTexts, n \in DiffTexts}
                  \cup {DiffCall(ExampleOld, ExampleNew)}

\* the call runs and returns
Diff ==
  /\ diffCall.pc = "call"
  /\ diffCall' = [diffCall EXCEPT
                    !.pc = "returned",
                    !.result = generateSimpleDiff(diffCall.oldContent,
                                                  diffCall.newContent,
                                                  diffCall.filePath)]
  /\ UNCHANGED <<parseVars, dir, watchVars>>
  /\ UNCHANGED captureVars

NextDiff == Diff

DiffSpec == InitDiff /\ [][NextDiff]_vars

-----------------------------------------------------------------------------
(* captureSessionsFromDirectory *)

\* the prompts as the caller leaves them, without sorting
Unsorted(prompts) == prompts

RECURSIVE InsertByTimestamp(_, _)
\* Math.round of total / count for a positive count: halves go up
RoundedMean(total, count) == (2 * total + count) \div (2 * count)

\* prompt.responseTimeMs is truthy: a number that is neither NaN nor 0
TruthyTime(t) == t.computed /\ ~t.nan /\ t.ms # 0

\* prompt.responseTimeMs is a number, 0 included
ComputedTime(t) == t.computed /\ ~t.nan

RECURSIVE SumTimes(_)
\* the sum of responseTimeMs over the prompts
SumTimes(prompts) ==
  IF prompts = <<>> THEN 0
  ELSE Head(prompts).responseTimeMs.ms + SumTimes(Tail(prompts))

Absent == [present |-> FALSE, value |-> 0]
Present(value) == [present |-> TRUE, value |-> value]

\* calculateSessionStats (capture.ts 74-104): the mean response time and the number
\* of tool executions that ended in an error
calculateSessionStats(sd) ==
  LET counted == SelectSeq(sd.prompts, LAMBDA p : TruthyTime(p.responseTimeMs))
      responseCount == Len(counted)
      totalResponseTime == SumTimes(counted)
      errorCount == Cardinality({i \in 1..Len(sd.toolExecutions) :
                                   sd.toolExecutions[i].status = "error"})
  IN [averageResponseTime |->
        IF responseCount > 0 THEN Present(RoundedMean(totalResponseTime, responseCount))
        ELSE Absent,
      errorCount |-> IF errorCount > 0 THEN Present(errorCount) ELSE Absent]

\* a prompt put into a sorted list, behind the prompts that are not later than it
InsertByTimestamp(sorted, prompt) ==
  IF sorted = <<>> THEN <<prompt>>
  ELSE IF sorted[1].timestamp - prompt.timestamp > 0
  THEN <<prompt>> \o sorted
  ELSE <<sorted[1]>> \o InsertByTimestamp(Tail(sorted), prompt)

RECURSIVE SortFrom(_, _, _)
SortFrom(prompts, k, sorted) ==
  IF k > Len(prompts) THEN sorted
  ELSE SortFrom(prompts, k + 1, InsertByTimestamp(sorted, prompts[k]))

\* allPrompts.sort((a, b) => time(a) - time(b)): a stable sort on the timestamps
SortByTimestamp(prompts) == SortFrom(prompts, 1, <<>>)

\* the entry with another time of writing
Stamp(entry, t) == [entry EXCEPT !.timestamp = t]

\* a prompt and two assistant turns that answer it, at times of at most MaxStamp ms
TimedLogs ==
  {<<Stamp(Mk("U", 1, 0), t[1]), Stamp(Mk("At", 2, 1), t[2]),
     Stamp(Mk("At", 3, 1), t[3])>> : t \in [1..3 -> 1..MaxStamp]}

\* session logs of one or two prompts with timestamps in any order
DirLogs ==
  UNION {{[i \in 1..n |-> Mk("U", u[i], 0)] : u \in [1..n -> 1..MaxStamp]} : n \in 1..2}

\* a directory entry: a session log, a session file that cannot be read, or a file
\* that is no session file
DirEntries ==
  {[ext |-> "jsonl", readable |-> TRUE, rawData |-> log] : log \in DirLogs}
  \cup {[ext |-> "jsonl", readable |-> FALSE, rawData |-> <<>>],
        [ext |-> "png", readable |-> TRUE, rawData |-> <<>>]}

\* the directories: at most MaxFiles entries in the order readdir gives them; the
\* name of an entry is its position
Directories ==
  UNION {[1..n -> DirEntries] : n \in 0..MaxFiles}
  \cup {<<[ext |-> "jsonl", readable |-> TRUE, rawData |-> log]>> : log \in TimedLogs}

IsSessionFile(f) == f.ext \in {"json", "jsonl", "txt", "md"}

InitDir ==
  /\ NoParse /\ NoDiffCall /\ NoWatch /\ NoCapture
  /\ dir \in {[pc |-> "readdir", files |-> d, sessionFiles |-> <<>>, allPrompts |-> <<>>,
               allChanges |-> <<>>, allAssistantActions |-> <<>>,
               allToolExecutions |-> <<>>, result |-> NullSession,
               sessionStats |-> calculateSessionStats(NullSession)] : d \in Directories}

\* readdir and the filter on the file names (capture.ts 750-751); the entries keep
\* their names
ReadDir ==
  /\ dir.pc = "readdir"
  /\ dir' = [dir EXCEPT
               !.pc = "files",
               !.sessionFiles =
                  SelectSeq([i \in 1..Len(dir.files) |->
                               [name |-> i, ext |-> dir.files[i].ext,
                                readable |-> dir.files[i].readable,
                                rawData |-> dir.files[i].rawData]],
                            IsSessionFile)]
  /\ UNCHANGED <<parseVars, diffCall, watchVars>>
  /\ UNCHANGED captureVars

\* one iteration of the loop over the session files: a file that cannot be read is
\* skipped, the prompts of the others are tagged with the file and collected
ReadFile ==
  /\ dir.pc = "files"
  /\ dir.sessionFiles # <<>>
  /\ LET f == Head(dir.sessionFiles)
         sd == Parse(f.rawData, now).sd
         tagged == [i \in 1..Len(sd.prompts) |->
                      [role |-> sd.prompts[i].role, content |-> sd.prompts[i].content,
                       timestamp |-> sd.prompts[i].timestamp,
                       isAutoGenerated |-> sd.prompts[i].isAutoGenerated,
                       uuid |-> sd.prompts[i].uuid,
                       associatedFiles |-> sd.prompts[i].associatedFiles,
                       responseTimeMs |-> sd.prompts[i].responseTimeMs,
                       sourceFile |-> f.name]]
     IN dir' = [dir EXCEPT
                  !.sessionFiles = Tail(@),
                  !.allPrompts = IF f.readable THEN @ \o tagged ELSE @,
                  !.allChanges = IF f.readable THEN @ \o sd.changes ELSE @,
                  !.allAssistantActions =
                     IF f.readable THEN @ \o sd.assistantActions ELSE @,
                  !.allToolExecutions =
                     IF f.readable THEN @ \o sd.toolExecutions ELSE @]
  /\ UNCHANGED <<parseVars, diffCall, watchVars>>
  /\ UNCHANGED captureVars

\* the sort and the construction of the result (capture.ts 787-810)
SortAndReturn ==
  /\ dir.pc = "files"
  /\ dir.sessionFiles = <<>>
  /\ LET result == [NullSession EXCEPT
                       !.timestamp = now,
                       !.prompts = SortByTimestamp(dir.allPrompts),
                       !.changes = dir.allChanges,
                       !.assistantActions = dir.allAssistantActions,
                       !.toolExecutions = dir.allToolExecutions]
     IN dir' = [dir EXCEPT !.pc = "done",
                           !.result = result,
                           !.sessionStats = calculateSessionStats(result)]
  /\ UNCHANGED <<parseVars, diffCall, watchVars>>
  /\ UNCHANGED captureVars

NextDir == ReadDir \/ ReadFile \/ SortAndReturn

DirSpec == InitDir /\ [][NextDir]_vars

-----------------------------------------------------------------------------
(* captureSessionsFromDirectory as a function, for the callers that use its result *)

\* the prompts of a file's SessionData with the name of the file on them
Tagged(prompts, name) ==
  [i \in 1..Len(prompts) |->
     [role |-> prompts[i].role, content |-> prompts[i].content,
      timestamp |-> prompts[i].timestamp,
      isAutoGenerated |-> prompts[i].isAutoGenerated,
      uuid |-> prompts[i].uuid,
      associatedFiles |-> prompts[i].associatedFiles,
      responseTimeMs |-> prompts[i].responseTimeMs,
      sourceFile |-> name]]

NoneCollected ==
  [allPrompts |-> <<>>, allChanges |-> <<>>, allAssistantActions |-> <<>>,
   allToolExecutions |-> <<>>]

\* allPrompts.push(...prompts), allChanges.push(...sd.changes) and the like
PushAll(acc, prompts, sd) ==
  [allPrompts |-> acc.allPrompts \o prompts,
   allChanges |-> acc.allChanges \o sd.changes,
   allAssistantActions |-> acc.allAssistantActions \o sd.assistantActions,
   allToolExecutions |-> acc.allToolExecutions \o sd.toolExecutions]

\* one iteration of the loop over the files: a file that is no session file or
\* cannot be read adds nothing
CollectFile(acc, f, name, clock) ==
  IF ~(IsSessionFile(f) /\ f.readable) THEN acc
  ELSE CHOOSE r \in {PushAll(a, Tagged(sd.prompts, name), sd) :
                       a \in {acc}, sd \in {Parse(f.rawData, clock).sd}} : TRUE

RECURSIVE CollectFiles(_, _, _, _)
\* the loop over the session files from position k on
CollectFiles(files, k, acc, clock) ==
  IF k > Len(files) THEN acc
  ELSE CollectFiles(files, k + 1, CollectFile(acc, files[k], k, clock), clock)

\* the SessionData captureSessionsFromDirectory returns for the files of a directory
CaptureDirectory(files, clock) ==
  CHOOSE r \in {[NullSession EXCEPT
                   !.timestamp = clock,
                   !.prompts = SortByTimestamp(collected.allPrompts),
                   !.changes = collected.allChanges,
                   !.assistantActions = collected.allAssistantActions,
                   !.toolExecutions = collected.allToolExecutions] :
                 collected \in {CollectFiles(files, 1, NoneCollected, clock)}} : TRUE

-----------------------------------------------------------------------------
(* captureAllSessions: the current session, the project history, .claude-sessions *)

\* a directory that does not exist: readdir rejects
Missing == [exists |-> FALSE, files |-> <<>>]
Directory(files) == [exists |-> TRUE, files |-> files]

SessionFile(log) == [ext |-> "jsonl", readable |-> TRUE, rawData |-> log]

\* the project directory of the working directory under ~/.claude/projects
ProjectDirectories ==
  {Missing, Directory(<<>>)}
  \cup {Directory(<<SessionFile(log)>>) :
          log \in DirLogs \cup {l \in ToolLogs : Len(l) <= 2} \cup {EndToEndLog}}

\* the directory .claude-sessions of the working directory
OtherDirectories ==
  {Missing} \cup {Directory(<<SessionFile(<<Mk("U", u, 0)>>)>>) : u \in 1..MaxStamp}

InitAll ==
  /\ NoParse /\ NoDiffCall /\ NoDirCall /\ NoWatch /\ NoJsonCall /\ NoRawCapture
  /\ all \in {[pc |-> "current", project |-> p, other |-> o, collected |-> NoneCollected,
               result |-> NullSession,
               sessionStats |-> calculateSessionStats(NullSession)] :
                p \in ProjectDirectories, o \in OtherDirectories}

\* what a call of captureSessionsFromDirectory adds to the four lists; nothing when
\* the call rejects
Collect(acc, d) ==
  IF ~d.exists THEN acc
  ELSE CHOOSE r \in {PushAll(acc, sd.prompts, sd) :
                       sd \in {CaptureDirectory(d.files, now)}} : TRUE

\* "First, add current session" (capture.ts 677-683): getCurrentSessionData captures
\* the project directory, and returns an empty session when it does not exist
CurrentSession ==
  /\ all.pc = "current"
  /\ all' = [all EXCEPT !.pc = "project", !.collected = Collect(@, all.project)]
  /\ UNCHANGED <<parseVars, diffCall, dir, watchVars, json, rawCapture>>

\* "Add project-specific Claude history" (capture.ts 685-701): the project directory
ProjectHistory ==
  /\ all.pc = "project"
  /\ all' = [all EXCEPT !.pc = "other", !.collected = Collect(@, all.project)]
  /\ UNCHANGED <<parseVars, diffCall, dir, watchVars, json, rawCapture>>

\* "Also check other possible paths" (capture.ts 703-719)
OtherPaths ==
  /\ all.pc = "other"
  /\ all' = [all EXCEPT !.pc = "sort", !.collected = Collect(@, all.other)]
  /\ UNCHANGED <<parseVars, diffCall, dir, watchVars, json, rawCapture>>

\* the sort, the result and its statistics (capture.ts 721-746)
SortAll ==
  /\ all.pc = "sort"
  /\ LET result == [NullSession EXCEPT
                       !.timestamp = now,
                       !.prompts = SortByTimestamp(all.collected.allPrompts),
                       !.changes = all.collected.allChanges,
                       !.assistantActions = all.collected.allAssistantActions,
                       !.toolExecutions = all.collected.allToolExecutions]
     IN all' = [all EXCEPT !.pc = "done",
                           !.result = result,
                           !.sessionStats = calculateSessionStats(result)]
  /\ UNCHANGED <<parseVars, diffCall, dir, watchVars, json, rawCapture>>

NextAll == CurrentSession \/ ProjectHistory \/ OtherPaths \/ SortAll

AllSpec == InitAll /\ [][NextAll]_vars

-----------------------------------------------------------------------------
(* parseSessionData: a session in the JSON format, or any other text *)

MaxMessages == 3

\* "edited `foo.py`": the verb and, behind it, the quoted path
Edited(path) == <<"edited ", path>>

RECURSIVE RefsOfLine(_)
\* the matches of fileRefPattern in one line, whose path holds a dot
RefsOfLine(l) ==
  IF Len(l) < 2 THEN <<>>
  ELSE (IF l[1] = "edited " /\ l[2] \in {"foo.py", "bar.py"} THEN <<l[2]>> ELSE <<>>)
       \o RefsOfLine(Tail(l))

RECURSIVE RefsOfText(_)
RefsOfText(content) ==
  IF content = <<>> THEN <<>>
  ELSE RefsOfLine(Head(content)) \o RefsOfText(Tail(content))

\* extractFilesFromContent for a string (capture.ts 309-348); the texts of the model
\* hold no function-call block and no code block, so the third pattern decides
extractFilesFromContent(content) == Dedupe(RefsOfText(content))

Message(role, content, timestamp) ==
  [role |-> role, content |-> content, timestamp |-> timestamp]

MessageTexts == {FixBug, <<Edited("foo.py")>>, <<Edited("foo.py"), Edited("bar.py")>>}

\* the conversations of at most MaxMessages messages; the timestamp of a message is
\* its position
Conversations ==
  UNION {{[k \in 1..n |-> Message(r[k], c[k], k)] :
            r \in [1..n -> {"user", "assistant"}], c \in [1..n -> MessageTexts]} :
         n \in 0..MaxMessages}

\* data.fileChanges: none, or one edit with both snapshots
RecordedChanges ==
  {<<>>,
   <<[type |-> "edit", path |-> "foo.py", content |-> Str("x=2"),
      oldContent |-> Str("x=1"), timestamp |-> 1]>>}

\* the texts parseSessionData is given: a JSON document with messages and
\* fileChanges, or the lines of a session log
JsonTexts ==
  {[format |-> "json", messages |-> m, fileChanges |-> c, lines |-> <<>>] :
     m \in Conversations, c \in RecordedChanges}
  \cup {[format |-> "jsonl", messages |-> <<>>, fileChanges |-> <<>>, lines |-> log] :
          log \in NoiseLogs \cup DirLogs \cup {EndToEndLog, <<>>}}

\* JSON.parse(rawData) returns: the text is a JSON document, or it is a log with
\* exactly one line that is not blank, and that line decodes
JsonParses(text) ==
  \/ text.format = "json"
  \/ Len(Lines(text.lines)) = 1 /\ Lines(text.lines)[1].line = "json"

\* the text of a log as parseRawConversation accumulates it: no line of a log begins
\* with Human:, User:, Assistant: or Claude:, so every line that is not blank is
\* appended to currentContent behind a line break
RawContent(lines) ==
  [i \in 1..Len(Lines(lines)) |->
     IF Lines(lines)[i].line = "json" THEN <<"{json}">> ELSE <<"{jso">>]

NoJsonLocals ==
  [index |-> 0, mapped |-> <<>>, prompts |-> <<>>, changes |-> <<>>,
   assistantActions |-> <<>>, toolExecutions |-> <<>>, timestamp |-> 0]

InitJson ==
  /\ NoParse /\ NoDiffCall /\ NoDirCall /\ NoWatch /\ NoRawCapture /\ NoAllCapture
  /\ json \in {[pc |-> "parse", rawData |-> t] @@ NoJsonLocals : t \in JsonTexts}

\* JSON.parse and the construction of sessionData (capture.ts 473-488); a text that
\* does not parse goes to parseRawConversation
JsonParse ==
  /\ json.pc = "parse"
  /\ json' = [json EXCEPT !.pc = IF JsonParses(json.rawData) THEN "map" ELSE "raw",
                          !.timestamp = now]
  /\ UNCHANGED <<parseVars, diffCall, dir, watchVars, rawCapture, all>>

\* one call of the callback of data.messages.map (capture.ts 491-523); the array the
\* callback returns into is assigned to sessionData.prompts when map is finished
MapMessage ==
  /\ json.pc = "map"
  /\ json.index < Len(json.rawData.messages)
  /\ LET index == json.index
         msg == json.rawData.messages[index + 1]
         timestamp == IF msg.timestamp # 0 THEN msg.timestamp ELSE now
         associatedFiles == IF msg.role = "assistant"
                            THEN extractFilesFromContent(msg.content) ELSE <<>>
         prompt == Prompt(msg.role, msg.content, timestamp,
                          msg.role = "user" /\ isAutoGeneratedPrompt(msg.content),
                          0, associatedFiles)
         prevPromptIndex == Len(json.prompts) - 1
         writesPrevious == /\ associatedFiles # <<>>
                           /\ index > 0
                           /\ json.rawData.messages[index].role = "user"
                           /\ prevPromptIndex >= 0
         actions == IF msg.role = "assistant"
                    THEN extractAssistantActions(msg.content, timestamp) ELSE <<>>
     IN json' = [json EXCEPT
                   !.index = index + 1,
                   !.mapped = Append(@, prompt),
                   !.prompts = IF writesPrevious
                               THEN [@ EXCEPT ![prevPromptIndex + 1].associatedFiles =
                                                 associatedFiles]
                               ELSE @,
                   !.assistantActions = @ \o actions]
  /\ UNCHANGED <<parseVars, diffCall, dir, watchVars, rawCapture, all>>

\* data.fileChanges.map (capture.ts 527-544)
JsonChanges(fileChanges) ==
  [i \in 1..Len(fileChanges) |->
     LET change == fileChanges[i]
     IN [type |-> change.type, path |-> change.path, content |-> change.content,
         oldContent |-> change.oldContent,
         timestamp |-> IF change.timestamp # 0 THEN change.timestamp ELSE now,
         diff |-> IF /\ Truthy(change.oldContent) /\ Truthy(change.content)
                     /\ change.type = "edit"
                  THEN generateSimpleDiff(change.oldContent, change.content, change.path)
                  ELSE <<>>,
         structuredPatch |-> FALSE]]

\* the end of map, the file changes and the return (capture.ts 491, 526-554)
ReturnJson ==
  /\ json.pc = "map"
  /\ json.index = Len(json.rawData.messages)
  /\ json' = [json EXCEPT !.pc = "done",
                          !.prompts = json.mapped,
                          !.changes = JsonChanges(json.rawData.fileChanges)]
  /\ UNCHANGED <<parseVars, diffCall, dir, watchVars, rawCapture, all>>

\* parseRawConversation on the text of a log (capture.ts 561-668): one prompt of
\* role user with the text, none for a text without content
RawConversation ==
  /\ json.pc = "raw"
  /\ LET currentContent == RawContent(json.rawData.lines)
     IN json' = [json EXCEPT
                   !.pc = "done",
                   !.timestamp = now,
                   !.prompts = IF currentContent # <<>>
                               THEN <<Prompt("user", currentContent, now, FALSE, 0, <<>>)>>
                               ELSE <<>>]
  /\ UNCHANGED <<parseVars, diffCall, dir, watchVars, rawCapture, all>>

NextJson == JsonParse \/ MapMessage \/ ReturnJson \/ RawConversation

JsonSpec == InitJson /\ [][NextJson]_vars

-----------------------------------------------------------------------------
(* captureRawSession: the last prompts of the latest session log, with what follows them *)

MaxLimit == 4

RawKinds == {"U", "Uc", "E", "A", "bad"}

\* the latest session log of the project directory
RawLogs ==
  UNION {{[i \in 1..n |-> Mk(k[i], i, i - 1)] : k \in [1..n -> RawKinds]} :
         n \in 0..MaxLines}

\* array.slice(-limit) for a limit that is not negative: -0 is 0, and slice(0) is
\* the whole array
SliceLast(s, limit) ==
  IF limit = 0 THEN s ELSE SubSeq(s, Max(1, Len(s) - limit + 1), Len(s))

\* the test of the loop over the entries (capture.ts 401-409)
IsGenuinePrompt(entry) ==
  /\ entry.type = "user"
  /\ entry.hasMessage /\ entry.role = "user"
  /\ entry.contentIsString
  /\ ~isAutoGeneratedPrompt(entry.text)

InitRaw ==
  /\ NoParse /\ NoDiffCall /\ NoDirCall /\ NoWatch /\ NoJsonCall /\ NoAllCapture
  /\ rawCapture \in
       {[pc |-> "read", hasFile |-> h, lines |-> log, limit |-> limit, entries |-> <<>>,
         userPromptIndices |-> <<>>, prompts |-> <<>>] :
          h \in BOOLEAN, log \in RawLogs, limit \in 0..MaxLimit}

\* readdir, the choice of the latest log and the decoding of its lines
\* (capture.ts 362-395): without a log the empty result is returned
ReadLatest ==
  /\ rawCapture.pc = "read"
  /\ rawCapture' =
       IF ~rawCapture.hasFile THEN [rawCapture EXCEPT !.pc = "done"]
       ELSE [rawCapture EXCEPT
               !.pc = "find",
               !.entries = SelectSeq(rawCapture.lines, LAMBDA l : l.line = "json")]
  /\ UNCHANGED <<parseVars, diffCall, dir, watchVars, json, all>>

\* "Find user prompts" (capture.ts 397-410)
FindUserPrompts ==
  /\ rawCapture.pc = "find"
  /\ rawCapture' =
       [rawCapture EXCEPT
          !.pc = "select",
          !.userPromptIndices =
             SelectSeq([i \in 1..Len(rawCapture.entries) |-> i],
                       LAMBDA i : IsGenuinePrompt(rawCapture.entries[i]))]
  /\ UNCHANGED <<parseVars, diffCall, dir, watchVars, json, all>>

\* "Get the last N user prompts" and the segments behind them (capture.ts 412-424)
SelectPrompts ==
  /\ rawCapture.pc = "select"
  /\ LET entries == rawCapture.entries
         selectedIndices == SliceLast(rawCapture.userPromptIndices, rawCapture.limit)
     IN rawCapture' =
          [rawCapture EXCEPT
             !.pc = "done",
             !.prompts =
                [i \in 1..Len(selectedIndices) |->
                   LET startIdx == selectedIndices[i]
                       endIdx == IF i < Len(selectedIndices) THEN selectedIndices[i + 1]
                                 ELSE Len(entries) + 1
                   IN [userPrompt |-> entries[startIdx],
                       sessionEntries |-> SubSeq(entries, startIdx + 1, endIdx - 1)]]]
  /\ UNCHANGED <<parseVars, diffCall, dir, watchVars, json, all>>

NextRaw == ReadLatest \/ FindUserPrompts \/ SelectPrompts

RawSpec == InitRaw /\ [][NextRaw]_vars

-----------------------------------------------------------------------------
(* Watch mode: a writer appends to the session file, SessionWatcher.processFile reads it *)

\* the logs the writer produces: a tool result below at most MaxHops prompts,
\* command wrappers and assistant turns
WatchKinds == {"U", "Uc", "A"}

WatchLogs ==
  UNION {{KindChain(h, kinds) : kinds \in [1..h -> WatchKinds]} : h \in 0..MaxHops}

\* content.split('\n').filter(line => line.trim()) of the file as it is on disk: the
\* lines written so far and, behind them, the part of the next line written so far,
\* which does not decode
DiskLines ==
  SubSeq(raw, 1, file.written) \o (IF file.partial THEN <<NullEntry>> ELSE <<>>)

InitWatch ==
  /\ raw \in WatchLogs
  /\ now = 1
  /\ pc = "none"
  /\ idx = 0
  /\ entriesByUuid = <<>>
  /\ fileChangesByPrompt = <<>>
  /\ sessionData = NullSession
  /\ walk = NoWalk
  /\ changeOwner = <<>>
  /\ changeLine = <<>>
  /\ promptLine = <<>>
  /\ firstRun = <<>>
  /\ NoDiffCall /\ NoDirCall /\ NoCapture
  /\ file = [written |-> 0, partial |-> FALSE]
  /\ state \in {[NullState EXCEPT !.excludeAuto = b] : b \in BOOLEAN}
  /\ slices = <<>>

\* the writer appends a whole line
WriteLine ==
  /\ ~file.partial
  /\ file.written < Len(raw)
  /\ file' = [file EXCEPT !.written = @ + 1]
  /\ UNCHANGED <<parseVars, diffCall, dir, state, slices>>
  /\ UNCHANGED captureVars

\* the writer appends the first part of a line
WritePart ==
  /\ ~file.partial
  /\ file.written < Len(raw)
  /\ file' = [file EXCEPT !.partial = TRUE]
  /\ UNCHANGED <<parseVars, diffCall, dir, state, slices>>
  /\ UNCHANGED captureVars

\* the writer appends the rest of the line
WriteRest ==
  /\ file.partial
  /\ file' = [written |-> file.written + 1, partial |-> FALSE]
  /\ UNCHANGED <<parseVars, diffCall, dir, state, slices>>
  /\ UNCHANGED captureVars

\* newData.changes.filter(...) (watch.ts 185-190), one change after the other: the
\* changes are compared with recentFileChanges as it is before the call
NewFileChanges(changes, recent) ==
  SelectSeq(changes,
            LAMBDA c : /\ c.diff # <<>>
                       /\ ~\E k \in 1..Len(recent) :
                             recent[k].path = c.path /\ recent[k].timestamp = c.timestamp)

\* processFile (watch.ts 162-268), when the file has more lines than were processed
ProcessFile ==
  /\ Len(DiskLines) > state.lastProcessedLine
  /\ LET lines == DiskLines
         newLines == SubSeq(lines, state.lastProcessedLine + 1, Len(lines))
         parsed == Parse(newLines, now)
         newData == parsed.sd
         users == SelectSeq(newData.prompts, LAMBDA q : q.role = "user")
         newPrompts == IF state.excludeAuto
                       THEN SelectSeq(users, LAMBDA q : ~q.isAutoGenerated)
                       ELSE users
         newFileChanges == NewFileChanges(newData.changes, state.recentFileChanges)
     IN /\ state' = [state EXCEPT
                       !.sessionData.changes = @ \o newFileChanges,
                       !.recentFileChanges =
                          @ \o [k \in 1..Len(newFileChanges) |->
                                  [path |-> newFileChanges[k].path,
                                   timestamp |-> newFileChanges[k].timestamp]],
                       !.prompts = @ \o newPrompts,
                       !.sessionData.prompts = @ \o newData.prompts,
                       !.lastProcessedLine = Len(lines)]
        /\ slices' = Append(slices,
                            [from |-> state.lastProcessedLine, to |-> Len(lines),
                             partial |-> file.partial,
                             changeOwner |-> parsed.changeOwner,
                             changeLine |-> parsed.changeLine])
  /\ UNCHANGED <<parseVars, diffCall, dir, file>>
  /\ UNCHANGED captureVars

NextWatch == WriteLine \/ WritePart \/ WriteRest \/ ProcessFile

WatchSpec == InitWatch /\ [][NextWatch]_vars

-----------------------------------------------------------------------------
(* Properties *)

\* the state machine ends with what the function computes
ParseAgrees ==
  pc = "done" =>
     LET r == Parse(raw, now)
     IN /\ r.sd = sessionData
        /\ r.map = fileChangesByPrompt
        /\ r.changeOwner = changeOwner
        /\ r.changeLine = changeLine
        /\ r.promptLine = promptLine

Done == pc = "done"

UserPrompts == SelectSeq(sessionData.prompts, LAMBDA p : p.role = "user")

HasDiffLine(diff, k, n, token) ==
  \E i \in 1..Len(diff) : diff[i] = DiffLine(k, n, 0, <<token>>)

\* C1: the end-to-end log yields exactly one user Prompt, "fix bug", whose
\* associatedFiles is ["foo.py"], and exactly one FileChange, for foo.py, whose diff
\* removes x=1 and adds x=2.
C1_EndToEnd ==
  (Done /\ raw = EndToEndLog) =>
     /\ Len(UserPrompts) = 1
     /\ UserPrompts[1].content = FixBug
     /\ UserPrompts[1].associatedFiles = <<"foo.py">>
     /\ Len(sessionData.changes) = 1
     /\ sessionData.changes[1].path = "foo.py"
     /\ HasDiffLine(sessionData.changes[1].diff, "-", 1, "x=1")
     /\ HasDiffLine(sessionData.changes[1].diff, "+", 1, "x=2")

\* C2: after the pass, the associatedFiles of every user Prompt with a uuid contain
\* the path of every FileChange whose walk resolved to that uuid.
C2_AssociatedFilesComplete ==
  Done =>
     \A i \in 1..Len(sessionData.prompts) : \A j \in 1..Len(sessionData.changes) :
        (/\ sessionData.prompts[i].role = "user"
         /\ sessionData.prompts[i].uuid # 0
         /\ changeOwner[j] = sessionData.prompts[i].uuid)
        => sessionData.changes[j].path \in Range(sessionData.prompts[i].associatedFiles)

\* C3: every FileChange of kind edit whose content and oldContent are both present
\* (here: present and not empty) has a non-empty diff.
C3_EditHasDiff ==
  \A j \in 1..Len(sessionData.changes) :
     (/\ sessionData.changes[j].type = "edit"
      /\ Truthy(sessionData.changes[j].content)
      /\ Truthy(sessionData.changes[j].oldContent))
     => sessionData.changes[j].diff # <<>>


EraseTimestamps(list) == [i \in 1..Len(list) |-> [list[i] EXCEPT !.timestamp = 0]]

\* a SessionData without its top-level timestamp
WithoutCaptureTime(sd) == [sd EXCEPT !.timestamp = 0]

\* a SessionData without any timestamp
WithoutTimestamps(sd) ==
  [timestamp |-> 0,
   prompts |-> EraseTimestamps(sd.prompts),
   changes |-> EraseTimestamps(sd.changes),
   assistantActions |-> EraseTimestamps(sd.assistantActions),
   toolExecutions |-> EraseTimestamps(sd.toolExecutions)]

AllStamped(log) == \A i \in 1..Len(log) : log[i].line = "json" => log[i].timestamp # 0

SecondRunDone == Done /\ firstRun # <<>>

-----------------------------------------------------------------------------
(* The walk, stated independently of its loop *)

RECURSIVE Ancestor(_, _, _)
\* the entry h parentUuid hops above e in the index; NullEntry past the end of the chain
Ancestor(index, e, h) ==
  IF h = 0 THEN e
  ELSE LET c == Ancestor(index, e, h - 1)
       IN IF c.parentUuid = 0 \/ c.parentUuid \notin DOMAIN index THEN NullEntry
          ELSE index[c.parentUuid]

\* the ancestor h hops above the entry whose tool result is being walked
Anc(h) == Ancestor(entriesByUuid, CurrentEntry, h)

WalkEnded == pc = "walk" /\ ~WalkContinues(walk)
Resolved == walk.userPromptUuid # 0

\* a user-kind entry that is no tool-result echo and whose text has no exclusion marker
QualifiesAsStated(e) ==
  /\ e.type = "user"
  /\ ~IsToolResultEcho(e)
  /\ \A m \in ExclusionMarkers : ~Includes(WalkContent(e), m)

\* the same, for an entry that has a message and a text that is not empty
QualifiesWithText(e) ==
  QualifiesAsStated(e) /\ e.hasMessage /\ Truthy(WalkContent(e))

\* C5: the walk inspects at most maxDepth ancestors; it resolves exactly when a
\* genuine prompt lies within maxDepth hops; a change whose walk did not resolve is
\* filed under no prompt, and when no walk of the log resolved no prompt has
\* associatedFiles.
C5_DepthBound ==
  /\ walk.depth <= maxDepth
  /\ WalkEnded =>
       (Resolved <=> \E h \in 1..maxDepth : IsRealUserPrompt(Anc(h)))
  /\ Done =>
       \A j \in 1..Len(sessionData.changes) :
          changeOwner[j] = 0 =>
             \A u \in DOMAIN fileChangesByPrompt :
                sessionData.changes[j] \notin Range(fileChangesByPrompt[u])
  /\ (Done /\ \A j \in 1..Len(sessionData.changes) : changeOwner[j] = 0) =>
       \A i \in 1..Len(sessionData.prompts) : sessionData.prompts[i].associatedFiles = <<>>

\* the walk gave up after maxDepth hops with a genuine prompt one hop further
C5_Witness ==
  /\ WalkEnded
  /\ ~Resolved
  /\ walk.depth = maxDepth
  /\ IsRealUserPrompt(Anc(maxDepth + 1))

\* every iteration of the walk visits an entry it has not visited before and there are
\* at most maxDepth of them; a walk that ends unresolved ends at an entry without
\* parentUuid, at a parentUuid that is not in the index, at an entry it has visited,
\* or after maxDepth hops
WalkStops ==
  /\ walk.depth <= maxDepth
  /\ Cardinality(walk.visited) = walk.depth
  /\ (WalkEnded /\ ~Resolved) =>
        \/ walk.currentEntry.parentUuid = 0
        \/ walk.currentEntry.parentUuid \notin DOMAIN entriesByUuid
        \/ walk.currentEntry.uuid \in walk.visited
        \/ walk.depth >= maxDepth

\* C6: the walk ends for every entry graph, for one of the four reasons when it
\* does not resolve, and so the pass ends.
C6_WalkTerminates == []WalkStops /\ <>Done

\* the walk of a chain that loops back on itself ended at an entry it had visited
C6_Witness ==
  /\ WalkEnded
  /\ ~Resolved
  /\ walk.currentEntry.uuid \in walk.visited
  /\ walk.currentEntry.parentUuid \in DOMAIN entriesByUuid
  /\ walk.depth > 10
  /\ walk.depth < maxDepth

NearestAsStated(h) ==
  QualifiesAsStated(Anc(h)) /\ \A g \in 1..(h - 1) : ~QualifiesAsStated(Anc(g))

NearestWithText(h) ==
  QualifiesWithText(Anc(h)) /\ \A g \in 1..(h - 1) : ~QualifiesWithText(Anc(g))

-----------------------------------------------------------------------------
(* Changes and prompts against the lines they come from *)

NonDecreasing(list) == \A i \in 1..(Len(list) - 1) : list[i] <= list[i + 1]
Increasing(list) == \A i \in 1..(Len(list) - 1) : list[i] < list[i + 1]

\* the uuid whose changes prompt i is linked to: its own for a user prompt, the
\* parentUuid of its entry for an assistant prompt
LinkOf(i) ==
  IF sessionData.prompts[i].role = "user" THEN sessionData.prompts[i].uuid
  ELSE Lines(raw)[promptLine[i]].parentUuid

\* C9: a FileChange whose walk did not resolve is in the changes, in file order with
\* the others, and its path is in a prompt's associatedFiles only if a resolved
\* FileChange with the same path is linked to that prompt.
C9_UnresolvedUnattached ==
  Done =>
     /\ NonDecreasing(changeLine)
     /\ \A j \in 1..Len(sessionData.changes) : \A i \in 1..Len(sessionData.prompts) :
           (/\ changeOwner[j] = 0
            /\ sessionData.changes[j].path \in Range(sessionData.prompts[i].associatedFiles))
           => \E k \in 1..Len(sessionData.changes) :
                 /\ changeOwner[k] # 0
                 /\ changeOwner[k] = LinkOf(i)
                 /\ sessionData.changes[k].path = sessionData.changes[j].path

\* the processing of the entry throws after it was decoded
ProcessingFails(entry) ==
  /\ entry.line = "json"
  /\ entry.type = "user"
  /\ entry.hasMessage
  /\ ~entry.contentIsString
  /\ UserItems(entry.items, 1,
               [contentParts |-> <<>>, hasToolResult |-> FALSE, actions |-> <<>>,
                threw |-> FALSE], 0).threw

\* C10: the pass ends for every text; a line that does not decode, or whose
\* processing fails, contributes no prompt and no change, and prompts and changes
\* are in the order of their lines.
C10_FailedLinesSkipped ==
  Done =>
     /\ Increasing(promptLine)
     /\ NonDecreasing(changeLine)
     /\ \A l \in 1..Len(Lines(raw)) :
           (Lines(raw)[l].line = "bad" \/ ProcessingFails(Lines(raw)[l]))
           => (l \notin Range(promptLine) /\ l \notin Range(changeLine))

-----------------------------------------------------------------------------
(* Tool executions *)

Open(execution) == ~Truthy(execution.result)

IsToolResultLine(entry) ==
  entry.line = "json" /\ entry.type = "tool_result" /\ Truthy(entry.content)

\* the executions that a step closes
ClosedByStep ==
  {i \in 1..Len(sessionData.toolExecutions) :
     /\ Open(sessionData.toolExecutions[i])
     /\ i <= Len(sessionData'.toolExecutions)
     /\ ~Open(sessionData'.toolExecutions[i])}

\* C12: a ToolExecution is created without result and status; an execution that has
\* a result is never changed again; a step of the pass, which handles one entry,
\* closes at most one execution and no execution is removed.
C12_Lifecycle ==
  [][/\ Len(sessionData'.toolExecutions) >= Len(sessionData.toolExecutions)
     /\ \A i \in 1..Len(sessionData'.toolExecutions) :
           IF i > Len(sessionData.toolExecutions)
           THEN /\ sessionData'.toolExecutions[i].result = Undefined
                /\ sessionData'.toolExecutions[i].status = ""
                /\ ~sessionData'.toolExecutions[i].fileChange.present
           ELSE ~Open(sessionData.toolExecutions[i])
                => sessionData'.toolExecutions[i] = sessionData.toolExecutions[i]
     /\ Cardinality(ClosedByStep) <= 1
     /\ ClosedByStep # {} => (pc = "msg" /\ IsToolResultLine(CurrentEntry))]_vars

\* two executions were opened and closed, the first by a result that reports an error
C12_Witness ==
  /\ Done
  /\ Len(sessionData.toolExecutions) = 2
  /\ sessionData.toolExecutions[1].status = "error"
  /\ sessionData.toolExecutions[2].status = "success"

\* a tool_result entry is about to be handled while no execution is open
ArrivesUnmatched ==
  /\ pc = "msg"
  /\ IsToolResultLine(CurrentEntry)
  /\ \A i \in 1..Len(sessionData.toolExecutions) : ~Open(sessionData.toolExecutions[i])

\* the handling of the entry leaves the executions and the prompts as they are, and
\* the pass goes on with the next line
DroppedStep ==
  ArrivesUnmatched =>
     /\ sessionData'.toolExecutions = sessionData.toolExecutions
     /\ sessionData'.prompts = sessionData.prompts
     /\ sessionData'.changes = sessionData.changes
     /\ pc' = "line"
     /\ idx' = idx + 1

\* the changes the current line has contributed so far
ChangesOfLine == {j \in 1..Len(changeLine) : changeLine[j] = idx}

\* C13 as stated: a tool_result entry that arrives when no execution is open leaves
\* toolExecutions, prompts and changes unchanged, and nothing is raised.
C13_Dropped ==
  /\ [](ArrivesUnmatched => ChangesOfLine = {})
  /\ [][DroppedStep]_vars

\* C13 as amended: such an entry leaves toolExecutions and prompts unchanged and
\* nothing is raised; the changes grow by the FileChanges of the entry's own
\* toolUseResult, one per edit, and by nothing else.
C13_DroppedButChanges ==
  /\ [](ArrivesUnmatched => Cardinality(ChangesOfLine) = EditCount(CurrentEntry))
  /\ [][DroppedStep]_vars

\* a tool_result entry with a toolUseResult was handled while no execution existed,
\* and its FileChange is in the changes
C13_Witness ==
  /\ Done
  /\ sessionData.toolExecutions = <<>>
  /\ \E l \in Range(changeLine) : IsToolResultLine(Lines(raw)[l])

\* the end-to-end log has exactly one ToolExecution, for Edit
EndToEndExecution ==
  /\ Len(sessionData.toolExecutions) = 1
  /\ sessionData.toolExecutions[1].tool = "Edit"

\* C14: after the pass over the end-to-end log there is exactly one ToolExecution,
\* with tool Edit and status success.
C14_EndToEndClosed ==
  (Done /\ raw = EndToEndLog) =>
     /\ EndToEndExecution
     /\ sessionData.toolExecutions[1].status = "success"

\* C20: after the pass, the assistant Prompt built from an assistant entry whose
\* parentUuid is a uuid that changes resolved to has the deduplicated paths of these
\* changes as its associatedFiles.
C20_AssistantCrossLink ==
  Done =>
     \A i \in 1..Len(sessionData.prompts) :
        LET u == Lines(raw)[promptLine[i]].parentUuid
        IN (/\ sessionData.prompts[i].role = "assistant"
            /\ u \in DOMAIN fileChangesByPrompt)
           => sessionData.prompts[i].associatedFiles
                = AssociatedFilesOf(fileChangesByPrompt, u)

-----------------------------------------------------------------------------
(* The output of generateSimpleDiff, read back *)

Returned == diffCall.pc = "returned"

HasChanges == Returned /\ diffCall.result[1].k = "update"

RECURSIVE SplitBlocks(_, _)
\* the printed lines cut at the separators between change blocks
SplitBlocks(printed, current) ==
  IF printed = <<>> THEN <<current>>
  ELSE IF printed[1].k = "sep"
  THEN <<current>> \o SplitBlocks(Tail(printed), <<>>)
  ELSE SplitBlocks(Tail(printed), Append(current, printed[1]))

\* the change blocks of the result, after its two header lines
Blocks == SplitBlocks(SubSeq(diffCall.result, 3, Len(diffCall.result)), <<>>)

IsMark(l) == l.k \in {"-", "+"}

Removed(b) == SelectSeq(b, LAMBDA l : l.k = "-")
Added(b) == SelectSeq(b, LAMBDA l : l.k = "+")

\* the positions of the first and of the last removed or added line of a block
FirstMark(b) == CHOOSE i \in 1..Len(b) : IsMark(b[i]) /\ \A j \in 1..(i - 1) : ~IsMark(b[j])
LastMark(b) == CHOOSE i \in 1..Len(b) : IsMark(b[i]) /\ \A j \in (i + 1)..Len(b) : ~IsMark(b[j])

ContextBeforeOf(b) == SubSeq(b, 1, FirstMark(b) - 1)
ContextAfterOf(b) == SubSeq(b, LastMark(b) + 1, Len(b))

\* the first and the last line number a block changes
StartOf(b) == b[FirstMark(b)].n
EndOf(b) == StartOf(b) + Max(Len(Removed(b)), Len(Added(b))) - 1

\* C15: a block is printed as context lines, removed lines, added lines, context
\* lines; the context before is the 3 lines before the block, fewer at the start of
\* the text, the context after is the 2 lines after it, fewer at the end of the new
\* text; a/b/c against a/X/c gives one block at line 2, b removed and X added, with
\* line 1 before and line 3 after.
C15_Context ==
  /\ HasChanges =>
       \A k \in 1..Len(Blocks) :
          LET b == Blocks[k]
              before == ContextBeforeOf(b)
              after == ContextAfterOf(b)
          IN /\ \E i \in 1..Len(b) : IsMark(b[i])
             /\ b = before \o Removed(b) \o Added(b) \o after
             /\ \A j \in 1..Len(before) :
                   before[j].k = "ctx" /\ before[j].n = StartOf(b) - Len(before) + j - 1
             /\ \A j \in 1..Len(after) :
                   after[j].k = "ctx" /\ after[j].n = EndOf(b) + j
             /\ Len(before) = Min(3, StartOf(b) - 1)
             /\ Len(after) = Max(0, Min(2, Len(diffCall.newContent) - EndOf(b)))
  /\ (Returned /\ diffCall.oldContent = ExampleOld /\ diffCall.newContent = ExampleNew)
       => diffCall.result =
            <<DiffLine("update", 0, 0, <<"foo.py">>),
              DiffLine("summary", 1, 1, <<"foo.py">>),
              DiffLine("ctx", 1, 0, <<"a">>),
              DiffLine("-", 2, 0, <<"b">>),
              DiffLine("+", 2, 0, <<"X">>),
              DiffLine("ctx", 3, 0, <<"c">>)>>

\* a block at line 5 was printed with lines 2 to 4 before it, and not line 1
C15_Witness ==
  /\ HasChanges
  /\ \E k \in 1..Len(Blocks) :
        StartOf(Blocks[k]) = 5 /\ Len(ContextBeforeOf(Blocks[k])) = 3

\* C16: a context line printed with line number k is an unchanged line: old line k
\* and new line k exist and are equal.
C16_ContextUnchanged ==
  HasChanges =>
     \A i \in 1..Len(diffCall.result) :
        diffCall.result[i].k = "ctx" =>
           LET k == diffCall.result[i].n
           IN /\ k <= Len(diffCall.oldContent)
              /\ k <= Len(diffCall.newContent)
              /\ diffCall.oldContent[k] = diffCall.newContent[k]

\* the indices at which the two texts differ; an index past the end of one differs
DiffersAt(i) ==
  \/ i > Len(diffCall.oldContent)
  \/ i > Len(diffCall.newContent)
  \/ diffCall.oldContent[i] # diffCall.newContent[i]

LastIndex == Max(Len(diffCall.oldContent), Len(diffCall.newContent))

\* the first indices of the maximal runs of differing indices
RunStarts == {i \in 1..LastIndex : DiffersAt(i) /\ (i = 1 \/ ~DiffersAt(i - 1))}

\* the last index of the run that starts at a
RunEnd(a) ==
  CHOOSE b \in a..LastIndex :
     /\ \A i \in a..b : DiffersAt(i)
     /\ b = LastIndex \/ ~DiffersAt(b + 1)

\* the lines a..b of a text that exist, printed with mark k
Marked(k, text, a, b) ==
  [j \in 1..Max(0, Min(b, Len(text)) - a + 1) |-> DiffLine(k, a + j - 1, 0, text[a + j - 1])]

RECURSIVE TotalOf(_, _)
TotalOf(blocks, k) ==
  IF blocks = <<>> THEN 0
  ELSE Len(SelectSeq(blocks[1], LAMBDA l : l.k = k)) + TotalOf(Tail(blocks), k)

\* C17: there is one change block per maximal run of differing indices, in order;
\* its removed lines are the old lines of the run and its added lines the new lines
\* of the run; the header counts are the totals over the blocks; the result is
\* 'No changes' exactly when the texts are equal.
C17_BlocksAreRuns ==
  Returned =>
     /\ diffCall.result = <<DiffLine("nochanges", 0, 0, EmptyLine)>>
          <=> diffCall.oldContent = diffCall.newContent
     /\ HasChanges =>
          /\ Len(Blocks) = Cardinality(RunStarts)
          /\ \A k \in 1..Len(Blocks) :
                /\ \E i \in 1..Len(Blocks[k]) : IsMark(Blocks[k][i])
                /\ StartOf(Blocks[k]) \in RunStarts
                /\ k > 1 => StartOf(Blocks[k - 1]) < StartOf(Blocks[k])
                /\ Removed(Blocks[k]) =
                      Marked("-", diffCall.oldContent, StartOf(Blocks[k]),
                             RunEnd(StartOf(Blocks[k])))
                /\ Added(Blocks[k]) =
                      Marked("+", diffCall.newContent, StartOf(Blocks[k]),
                             RunEnd(StartOf(Blocks[k])))
          /\ diffCall.result[2].k = "summary"
          /\ diffCall.result[2].n = TotalOf(Blocks, "+")
          /\ diffCall.result[2].m = TotalOf(Blocks, "-")

\* two blocks were printed, the second for lines that only the new text has
C17_Witness ==
  /\ HasChanges
  /\ Len(Blocks) = 2
  /\ Removed(Blocks[2]) = <<>>
  /\ Len(Added(Blocks[2])) = 2

-----------------------------------------------------------------------------
(* Directory capture *)

\* the prompts of the readable session files of the directory, as a bag of
\* (file, timestamp) pairs
PromptsOfDirectory ==
  LET pairs(i) == IF IsSessionFile(dir.files[i]) /\ dir.files[i].readable
                  THEN [l \in 1..Len(dir.files[i].rawData) |->
                          <<i, dir.files[i].rawData[l].timestamp>>]
                  ELSE <<>>
  IN [p \in UNION {Range(pairs(i)) : i \in 1..Len(dir.files)} |->
        Cardinality({l \in 1..Len(dir.files[p[1]].rawData) :
                       dir.files[p[1]].rawData[l].timestamp = p[2]})]

PromptsOfResult ==
  LET pairs == [k \in 1..Len(dir.result.prompts) |->
                  <<dir.result.prompts[k].sourceFile, dir.result.prompts[k].timestamp>>]
  IN [p \in Range(pairs) |-> Cardinality({k \in 1..Len(pairs) : pairs[k] = p})]

\* C11: the result of directory capture holds the prompts of all readable session
\* files, each once, in non-decreasing timestamp order, whatever the order of the
\* files is.
C11_MergedInTimeOrder ==
  dir.pc = "done" =>
     /\ \A k \in 1..(Len(dir.result.prompts) - 1) :
           dir.result.prompts[k].timestamp <= dir.result.prompts[k + 1].timestamp
     /\ PromptsOfResult = PromptsOfDirectory

\* two files, the first with the later prompt: the prompt of the second comes first
C11_Witness ==
  /\ dir.pc = "done"
  /\ Len(dir.files) = 2
  /\ Len(dir.result.prompts) = 2
  /\ dir.result.prompts[1].sourceFile = 2
  /\ dir.result.prompts[2].sourceFile = 1
  /\ dir.result.prompts[1].timestamp < dir.result.prompts[2].timestamp

-----------------------------------------------------------------------------
(* Watch mode *)

\* the slices in which line l of the file was parsed as a complete line
ParsedIn(l) ==
  {k \in 1..Len(slices) :
     /\ slices[k].from < l
     /\ l <= slices[k].to
     /\ ~(slices[k].partial /\ l = slices[k].to)}

\* the complete lines of the file that processFile has gone past
ProcessedLines == 1..Min(state.lastProcessedLine, file.written)

IsPromptLine(entry) ==
  entry.type = "user" /\ entry.hasMessage /\ entry.contentIsString /\ Truthy(entry.text)

\* C19: every complete line that processFile has gone past was parsed in exactly one
\* slice, the line that was completed after a read included, and the prompt of a
\* prompt line is once in the accumulated prompts; lastProcessedLine never
\* decreases.
C19_EveryLineOnce ==
  /\ [](\A l \in ProcessedLines :
          /\ Cardinality(ParsedIn(l)) = 1
          /\ IsPromptLine(raw[l]) =>
                Cardinality({k \in 1..Len(state.sessionData.prompts) :
                               state.sessionData.prompts[k].uuid = raw[l].uuid}) = 1)
  /\ [][state'.lastProcessedLine >= state.lastProcessedLine]_vars

\* every line of the log is on disk and processFile has gone past all of them, none
\* read while it was incomplete
AllProcessed ==
  /\ file.written = Len(raw)
  /\ state.lastProcessedLine = Len(raw)
  /\ \A k \in 1..Len(slices) : ~slices[k].partial

RECURSIVE OwnersOfSlices(_)
\* per change the slices found, the line of the file it comes from and the uuid its
\* walk resolved to
OwnersOfSlices(k) ==
  IF k = 0 THEN <<>>
  ELSE OwnersOfSlices(k - 1)
       \o [j \in 1..Len(slices[k].changeOwner) |->
             [line |-> slices[k].from + slices[k].changeLine[j],
              owner |-> slices[k].changeOwner[j]]]

\* the same for one parse of the whole file
OwnersOfBatch ==
  LET r == Parse(raw, now)
  IN [j \in 1..Len(r.changeOwner) |-> [line |-> r.changeLine[j], owner |-> r.changeOwner[j]]]

\* C18: when the whole file has been processed in slices, every change is
\* attributed to the prompt that one parse of the whole file attributes it to.
C18_SlicesAgreeWithBatch ==
  AllProcessed => OwnersOfSlices(Len(slices)) = OwnersOfBatch

-----------------------------------------------------------------------------
(* The nearest pending execution *)

OpenExecutions ==
  {i \in 1..Len(sessionData.toolExecutions) : Open(sessionData.toolExecutions[i])}

\* a tool_result entry is about to be handled while executions are open
ArrivesMatched ==
  /\ pc = "msg"
  /\ IsToolResultLine(CurrentEntry)
  /\ OpenExecutions # {}

MostRecentlyOpened == CHOOSE i \in OpenExecutions : \A j \in OpenExecutions : j <= i

\* the most recently opened of the open executions receives the entry's content and
\* the status of its error flag; no other execution changes
ClosesNearest ==
  ArrivesMatched =>
     /\ Len(sessionData'.toolExecutions) = Len(sessionData.toolExecutions)
     /\ \A i \in 1..Len(sessionData.toolExecutions) :
           IF i = MostRecentlyOpened
           THEN /\ sessionData'.toolExecutions[i].result = CurrentEntry.content
                /\ sessionData'.toolExecutions[i].status =
                      (IF CurrentEntry.error THEN "error" ELSE "success")
                /\ sessionData'.toolExecutions[i].tool = sessionData.toolExecutions[i].tool
           ELSE sessionData'.toolExecutions[i] = sessionData.toolExecutions[i]

TwoThenTwoResults == <<Mk("A2", 1, 0), Mk("T", 2, 1), Mk("Te", 3, 2)>>

\* C21: a tool_result entry that is processed while executions are open gives its
\* content as result to exactly the most recently opened of them, with status error
\* if it carries the error flag and success otherwise; with two open executions T1
\* then T2, the first result closes T2 and the second closes T1.
C21_ClosesNearestPending ==
  /\ [][ClosesNearest]_vars
  /\ []((raw = TwoThenTwoResults /\ pc = "line" /\ idx = 3) =>
           /\ Open(sessionData.toolExecutions[1])
           /\ sessionData.toolExecutions[2].status = "success")
  /\ []((raw = TwoThenTwoResults /\ Done) =>
           /\ sessionData.toolExecutions[1].status = "error"
           /\ sessionData.toolExecutions[2].status = "success")

\* of two open executions the later one has been closed and the earlier one is
\* still open
C21_Witness ==
  /\ Len(sessionData.toolExecutions) = 2
  /\ Open(sessionData.toolExecutions[1])
  /\ sessionData.toolExecutions[2].status = "success"

-----------------------------------------------------------------------------
(* Assistant actions *)

\* the actions that a step appends
NewActions ==
  {k \in 1..Len(sessionData'.assistantActions) :
     k > Len(sessionData.assistantActions)}

\* C22: every AssistantAction of type explanation that has a promptId has the uuid
\* of the last user Prompt emitted before the assistant turn as its promptId, also
\* when the assistant entry's parentUuid is a tool-result entry or an assistant entry.
C22_AttachedToNearestPrompt ==
  [][\A k \in NewActions :
        (/\ sessionData'.assistantActions[k].type = "explanation"
         /\ sessionData'.assistantActions[k].promptId # 0)
        => /\ UserPrompts # <<>>
           /\ sessionData'.assistantActions[k].promptId
                = UserPrompts[Len(UserPrompts)].uuid]_vars

-----------------------------------------------------------------------------
(* One FileChange per edit *)

\* the positions in sessionData.changes of the changes of line l, in order
ChangesFrom(l) ==
  SelectSeq([j \in 1..Len(changeLine) |-> j], LAMBDA j : changeLine[j] = l)

HasBatchOfEdits(entry) ==
  /\ entry.toolUseResult.present
  /\ entry.toolUseResult.filePath # ""
  /\ entry.toolUseResult.hasEdits

HasLegacyEdit(entry) ==
  /\ entry.toolUseResult.present
  /\ entry.toolUseResult.filePath # ""
  /\ ~entry.toolUseResult.hasEdits
  /\ (Truthy(entry.toolUseResult.oldString) \/ Truthy(entry.toolUseResult.newString))

\* the change at position j has the path and the timestamp of the entry
OfEntry(j, entry) ==
  /\ sessionData.changes[j].path = entry.toolUseResult.filePath
  /\ entry.timestamp # 0 => sessionData.changes[j].timestamp = entry.timestamp

\* C23: after the pass, an entry whose tool-use result has a filePath and an edits
\* array has contributed exactly one FileChange per edit, in the order of the array,
\* each with the entry's filePath and timestamp; an entry with a legacy result
\* (filePath with oldString or newString, no edits array) has contributed exactly
\* one; and all FileChanges of one entry have the same owner, or none has one.
C23_OnePerEdit ==
  Done =>
    \A l \in 1..Len(Lines(raw)) :
       LET entry == Lines(raw)[l]
           js == ChangesFrom(l)
       IN entry.line = "json" =>
            /\ HasBatchOfEdits(entry) =>
                 /\ Len(js) = Len(entry.toolUseResult.edits)
                 /\ \A k \in 1..Len(js) :
                       /\ OfEntry(js[k], entry)
                       /\ sessionData.changes[js[k]].content
                            = entry.toolUseResult.edits[k].new_string
                       /\ sessionData.changes[js[k]].oldContent
                            = entry.toolUseResult.edits[k].old_string
            /\ HasLegacyEdit(entry) =>
                 /\ Len(js) = 1
                 /\ OfEntry(js[1], entry)
                 /\ sessionData.changes[js[1]].content = entry.toolUseResult.newString
            /\ \A a \in Range(js), b \in Range(js) : changeOwner[a] = changeOwner[b]

\* a batch of two different edits has given two changes, in the order of the batch,
\* that have no owner
C23_Witness ==
  /\ Done
  /\ Len(sessionData.changes) = 2
  /\ changeLine = <<1, 1>>
  /\ changeOwner = <<0, 0>>
  /\ sessionData.changes[1].content = Str("x=1")
  /\ sessionData.changes[2].content = Str("x=2")

-----------------------------------------------------------------------------
(* Session statistics *)

\* the position in f's parse of the line that prompt k of the parse was built from
ParentOfPrompt(parsed, rawData, k) ==
  LET entry == Lines(rawData)[parsed.promptLine[k]]
      index == BuildIndex(Lines(rawData), Len(Lines(rawData)))
  IN IF entry.parentUuid \in DOMAIN index THEN index[entry.parentUuid] ELSE NullEntry

\* every assistant prompt of a readable log whose parent is indexed has the
\* difference of the two timestamps as its responseTimeMs
TimesAreDifferences ==
  \A i \in 1..Len(dir.files) :
     dir.files[i].readable /\ IsSessionFile(dir.files[i]) =>
       LET rawData == dir.files[i].rawData
           parsed == Parse(rawData, now)
       IN \A k \in 1..Len(parsed.sd.prompts) :
             LET entry == Lines(rawData)[parsed.promptLine[k]]
                 parent == ParentOfPrompt(parsed, rawData, k)
             IN (/\ parsed.sd.prompts[k].role = "assistant"
                 /\ parent.line = "json"
                 /\ entry.timestamp # 0 /\ parent.timestamp # 0)
                => /\ ComputedTime(parsed.sd.prompts[k].responseTimeMs)
                   /\ parsed.sd.prompts[k].responseTimeMs.ms
                        = entry.timestamp - parent.timestamp

\* the prompts of the result for which a response time was computed
WithResponseTime ==
  SelectSeq(dir.result.prompts, LAMBDA p : ComputedTime(p.responseTimeMs))

\* C24: averageResponseTime is the rounded arithmetic mean of responseTimeMs over
\* all prompts for which it was computed, a computed 0 included, and is absent only
\* when no prompt has one; responseTimeMs is the assistant entry's timestamp minus
\* its immediate parent's timestamp whenever the parent is indexed.
C24_MeanResponseTime ==
  dir.pc = "done" =>
     /\ dir.sessionStats.averageResponseTime =
           (IF WithResponseTime # <<>>
            THEN Present(RoundedMean(SumTimes(WithResponseTime), Len(WithResponseTime)))
            ELSE Absent)
     /\ TimesAreDifferences

-----------------------------------------------------------------------------
(* The JSON session format *)

\* C25: in parseSessionData, when an assistant message references at least one file
\* and the message immediately before it is a user message, the Prompt built for
\* that user message has the associatedFiles of the assistant Prompt.
C25_JsonUserPromptGetsFiles ==
  (json.pc = "done" /\ json.rawData.format = "json") =>
     \A k \in 2..Len(json.rawData.messages) :
        (/\ json.rawData.messages[k].role = "assistant"
         /\ extractFilesFromContent(json.rawData.messages[k].content) # <<>>
         /\ json.rawData.messages[k - 1].role = "user")
        => /\ json.prompts[k].associatedFiles
                = extractFilesFromContent(json.rawData.messages[k].content)
           /\ json.prompts[k - 1].associatedFiles = json.prompts[k].associatedFiles

-----------------------------------------------------------------------------
(* The most recent prompts *)

\* the positions, among the decoded entries of the log, of the entries that are of
\* type user, have a string as content and are not auto-generated
GenuinePositions ==
  LET entries == SelectSeq(rawCapture.lines, LAMBDA l : l.line = "json")
  IN SelectSeq([i \in 1..Len(entries) |-> i],
               LAMBDA i : /\ entries[i].type = "user" /\ entries[i].role = "user"
                          /\ entries[i].contentIsString
                          /\ ~isAutoGeneratedPrompt(entries[i].text))

\* the result holds the last min(limit, k) genuine prompts in file order, each with
\* the entries strictly between it and the next returned prompt or the end of the log
ReturnsLast ==
  LET entries == SelectSeq(rawCapture.lines, LAMBDA l : l.line = "json")
      k == Len(GenuinePositions)
      n == Min(rawCapture.limit, k)
      pos(j) == GenuinePositions[k - n + j]
  IN /\ Len(rawCapture.prompts) = n
     /\ \A j \in 1..Len(rawCapture.prompts) :
           j <= n =>
             /\ rawCapture.prompts[j].userPrompt = entries[pos(j)]
             /\ rawCapture.prompts[j].sessionEntries
                  = SubSeq(entries, pos(j) + 1,
                           IF j < n THEN pos(j + 1) - 1 ELSE Len(entries))

\* C26: captureRawSession(limit) returns exactly min(limit, k) prompts for every
\* limit >= 0, where k is the number of genuine user prompts of the log; they are
\* the last ones in file order, and the sessionEntries of each are the entries
\* strictly between it and the next returned prompt, or the end of the log.
C26_LastPrompts ==
  (rawCapture.pc = "done" /\ rawCapture.hasFile) => ReturnsLast

-----------------------------------------------------------------------------
(* Whose files a prompt holds *)

\* the paths of the changes whose walk resolved to the uuid
PathsResolvedTo(uuid) ==
  {sessionData.changes[j].path :
     j \in {c \in 1..Len(sessionData.changes) : uuid # 0 /\ changeOwner[c] = uuid}}

\* C27: the associatedFiles of a user Prompt hold only paths of FileChanges whose
\* walk resolved to the prompt's own uuid; the handling of an assistant entry never
\* writes the files of another user entry onto the user Prompt emitted last.
C27_OnlyOwnFiles ==
  \A i \in 1..Len(sessionData.prompts) :
     sessionData.prompts[i].role = "user" =>
        Range(sessionData.prompts[i].associatedFiles)
          \subseteq PathsResolvedTo(sessionData.prompts[i].uuid)

-----------------------------------------------------------------------------
(* Synthetic user turns *)

\* the text of the indexed entry, as isAutoGeneratedPrompt is given it when the
\* entry's Prompt is built
IsSynthetic(uuid) ==
  /\ uuid \in DOMAIN entriesByUuid
  /\ Truthy(WalkContent(entriesByUuid[uuid]))
  /\ isAutoGeneratedPrompt(WalkContent(entriesByUuid[uuid]))

\* C28: the entry a walk resolves to is never one whose text isAutoGeneratedPrompt
\* classifies as auto-generated, and no Prompt with isAutoGenerated = true has
\* associatedFiles from the walk.
C28_NeverSyntheticOwner ==
  /\ \A j \in 1..Len(changeOwner) : changeOwner[j] # 0 => ~IsSynthetic(changeOwner[j])
  /\ \A i \in 1..Len(sessionData.prompts) :
        sessionData.prompts[i].isAutoGenerated =>
           Range(sessionData.prompts[i].associatedFiles)
             \cap PathsResolvedTo(sessionData.prompts[i].uuid) = {}

-----------------------------------------------------------------------------
(* Directory capture and its callers *)

\* the state machine of captureSessionsFromDirectory returns what the function gives
DirAgrees ==
  dir.pc = "done" => dir.result = CaptureDirectory(dir.files, now)

\* the SessionData of the logs of a directory, each log parsed once
ParsedOnce(d) ==
  IF d.exists THEN CaptureDirectory(d.files, now) ELSE NullSession

ErrorsIn(sd) ==
  Cardinality({i \in 1..Len(sd.toolExecutions) : sd.toolExecutions[i].status = "error"})

\* C29: the merged SessionData of captureAllSessions holds every prompt, file change
\* and tool execution of the project's session directory exactly once: no log entry
\* contributes two Prompts or two FileChanges, and the statistics count each tool
\* execution once.
C29_EachEntryOnce ==
  all.pc = "done" =>
     LET project == ParsedOnce(all.project)
         other == ParsedOnce(all.other)
     IN /\ Len(all.result.prompts) = Len(project.prompts) + Len(other.prompts)
        /\ Len(all.result.changes) = Len(project.changes) + Len(other.changes)
        /\ Len(all.result.toolExecutions)
             = Len(project.toolExecutions) + Len(other.toolExecutions)
        /\ all.sessionStats.errorCount.value = ErrorsIn(project) + ErrorsIn(other)

-----------------------------------------------------------------------------
(* A session log captured by its path *)

\* what the two routes are compared on: role, content and timestamp of the prompts
Shown(prompts) ==
  [i \in 1..Len(prompts) |->
     [role |-> prompts[i].role, content |-> prompts[i].content,
      timestamp |-> prompts[i].timestamp]]

\* C30: captureSession with the path of a .jsonl file, which returns
\* parseSessionData of the file's text, yields the prompts and file changes that
\* directory capture yields for a directory that holds only that file.
C30_FileRouteIsDirectoryRoute ==
  (json.pc = "done" /\ json.rawData.format = "jsonl") =>
     LET byDirectory == CaptureDirectory(<<SessionFile(json.rawData.lines)>>, now)
     IN /\ Shown(json.prompts) = Shown(byDirectory.prompts)
        /\ json.changes = byDirectory.changes

====
